---------------------------- MODULE Spec2Model ----------------------------
(***************************************************************************)
(* A model of the stack machine of src/src/evm.rs: Machine::new, run,      *)
(* step, handle_frame_end and the Frame helpers.                           *)
(*                                                                         *)
(* Representation.  A U256 is the sequence of its 32 big-endian bytes, so  *)
(* to_be_bytes / from_be_bytes / from_be_slice and the truncating          *)
(* conversion as_limbs()[0] are modelled by what they do to the bytes.     *)
(* A usize / u64 is an integer; every value of 2^30 or more is collapsed   *)
(* to the single value UsizeHuge.  Gas budgets of the model stay far below *)
(* 3 * 2^25, the expansion cost of 2^30 bytes, so that a memory range      *)
(* reaching UsizeHuge always fails its expansion charge, exactly as the    *)
(* wrapping (release profile) arithmetic of the code does.                 *)
(***************************************************************************)
EXTENDS Integers, Sequences, FiniteSets, TLC

VARIABLES
    accounts,          \* Machine.accounts: address -> Account (partial map)
    call_stack,        \* Machine.call_stack: sequence of Frame, top last
    return_data,       \* Machine.return_data
    last_call_return,  \* Machine.last_call_return: <<ret_offset, ret_size>>
    result,            \* what run has returned so far ("running" before)
    ended_frame,       \* <<the frame the last handle_frame_end popped>>
    created,           \* history: per frame, the machine at its creation
    stored             \* history: <<address, key>> -> the word last stored

vars == <<accounts, call_stack, return_data, last_call_return, result,
          ended_frame, created, stored>>

----------------------------------------------------------------------------
(* Opcodes, src/src/evm.rs lines 8-37 *)

STOP == 0
ADD == 1
MUL == 2
SUB == 3
DIV == 4
LT == 16
GT == 17
EQ == 20
ISZERO == 21
SHA3 == 32
CALLDATALOAD == 53
MLOAD == 81
MSTORE == 82
POP == 80
SLOAD == 84
SSTORE == 85
JUMP == 86
JUMPI == 87
JUMPDEST == 91
PUSH1 == 96
PUSH32 == 127
DUP1 == 128
DUP16 == 143
SWAP1 == 144
SWAP16 == 159
CALL == 241
RETURNDATASIZE == 61
RETURNDATACOPY == 62
RETURN == 243
REVERT == 253

----------------------------------------------------------------------------
(* Bytes, words and machine integers *)

Min(a, b) == IF a < b THEN a ELSE b

Zeros(n) == [i \in 1..n |-> 0]

\* Every usize / u64 value >= 2^30 is represented by UsizeHuge.
UsizeHuge == 1073741824

\* usize::saturating_add, on the collapsed representation.
saturating_add(a, b) ==
    IF a >= UsizeHuge \/ b >= UsizeHuge \/ a + b >= UsizeHuge
    THEN UsizeHuge ELSE a + b

\* U256::ZERO
ZeroWord == Zeros(32)

\* U256::from(n) for a machine integer n < 2^30: its 32 big-endian bytes.
WordFromNat(n) ==
    [i \in 1..32 |->
        IF i = 32 THEN n % 256
        ELSE IF i = 31 THEN (n \div 256) % 256
        ELSE IF i = 30 THEN (n \div 65536) % 256
        ELSE IF i = 29 THEN (n \div 16777216) % 256
        ELSE 0]

\* U256::from_be_slice: at most 32 bytes, left-padded with zero bytes.
from_be_slice(bs) == Zeros(32 - Len(bs)) \o bs

\* U256::is_zero
is_zero(w) == \A i \in 1..32 : w[i] = 0

\* as_limbs()[0] as usize: the low 64 bits of the word (bytes 25..32); the
\* upper 192 bits are discarded.
as_limb0(w) ==
    IF w[25] = 0 /\ w[26] = 0 /\ w[27] = 0 /\ w[28] = 0 /\ w[29] < 64
    THEN w[29] * 16777216 + w[30] * 65536 + w[31] * 256 + w[32]
    ELSE UsizeHuge

\* gas_limit_u256 > U256::from(u64::MAX): some bit above the low 64 is set.
above_u64(w) == \E i \in 1..24 : w[i] # 0

\* Address::from_word: the low 20 bytes of the 32-byte encoding.
address_from_word(w) == SubSeq(w, 13, 32)

\* Unsigned comparison of two equally long big-endian byte strings: a < b
\* iff they differ first at a byte where a is smaller.
LtBytes(a, b) ==
    \E i \in 1..Len(a) :
        /\ a[i] < b[i]
        /\ \A k \in 1..(i - 1) : a[k] = b[k]

word_lt(a, b) == LtBytes(a, b)

\* a + b mod 256^Len(a).  The carry into byte i is 1 iff some lower byte j
\* generates a carry and every byte between i and j propagates it.
AddBytes(a, b) ==
    LET n == Len(a)
        carry(i) ==
            IF \E j \in (i + 1)..n :
                   /\ a[j] + b[j] > 255
                   /\ \A k \in (i + 1)..(j - 1) : a[k] + b[k] = 255
            THEN 1 ELSE 0
    IN  [i \in 1..n |-> (a[i] + b[i] + carry(i)) % 256]

\* a - b mod 256^Len(a).  The borrow out of the bytes below i is 1 iff
\* those bytes of a are less than those of b.
SubBytes(a, b) ==
    LET n == Len(a)
        borrow(i) ==
            IF \E j \in (i + 1)..n :
                   /\ a[j] < b[j]
                   /\ \A k \in (i + 1)..(j - 1) : a[k] = b[k]
            THEN 1 ELSE 0
    IN  [i \in 1..n |-> (a[i] - b[i] - borrow(i) + 256) % 256]

\* overflowing_add: (a + b) mod 2^256
overflowing_add(a, b) == AddBytes(a, b)

\* overflowing_sub: (a - b) mod 2^256
overflowing_sub(a, b) == SubBytes(a, b)

\* the sum of the entries lo..hi of a sequence of numbers
RECURSIVE SumRange(_, _, _)
SumRange(s, lo, hi) ==
    IF lo > hi THEN 0
    ELSE IF lo = hi THEN s[lo]
    ELSE LET mid == (lo + hi) \div 2
         IN  SumRange(s, lo, mid) + SumRange(s, mid + 1, hi)

\* overflowing_mul: schoolbook product of the byte digits, kept mod 2^256.
\* Digit k (0 = least significant) of a word w is w[32 - k]; column k sums
\* the digit products a_i * b_(k-i), and t adds the carry of column k-1.
ColumnSum(a, b, k) ==
    SumRange([i \in 1..(k + 1) |-> a[33 - i] * b[32 - (k + 1 - i)]], 1, k + 1)

\* Columns k..last, from the carry and the digits of the columns below.
RECURSIVE MulLoop(_, _, _, _, _, _)
MulLoop(a, b, k, last, carry, acc) ==
    IF k > last THEN [carry |-> carry, acc |-> acc]
    ELSE LET t    == ColumnSum(a, b, k) + carry
             acc2 == <<t % 256>> \o acc
         IN  IF Len(acc2) = k + 1
             THEN MulLoop(a, b, k + 1, last, t \div 256, acc2)
             ELSE [carry |-> 0, acc |-> <<>>]

\* the columns k..last, continuing from the state s of the columns below
MulColumns(a, b, k, last, s) == MulLoop(a, b, k, last, s.carry, s.acc)

overflowing_mul(a, b) ==
    MulColumns(a, b, 24, 31,
      MulColumns(a, b, 16, 23,
        MulColumns(a, b, 8, 15,
          MulLoop(a, b, 0, 7, 0, <<>>)))).acc

\* b * d for a digit d, in Len(b) bytes: the low bytes of the digit
\* products plus their high bytes moved up one position.
MulSmall(b, d) ==
    LET n == Len(b)
        lo == [i \in 1..n |-> (b[i] * d) % 256]
        hi == [i \in 1..n |-> IF i = n THEN 0 ELSE (b[i + 1] * d) \div 256]
    IN  SubSeq(AddBytes(lo, hi), 1, n)

\* a / b for b # 0: long division over the 32 byte digits of a.  The
\* remainder and the divisor are kept in 33 bytes (256 * b - 1 fits).
\* QuotientDigit: the largest digit d with d * b33 <= r, found bit by bit.
QuotientDigit(r, b33) ==
    LET Try(d, bit) ==
            LET e == d + bit
            IN  IF e > 255 \/ LtBytes(r, MulSmall(b33, e)) THEN d ELSE e
    IN  IF LtBytes(r, b33) THEN 0
        ELSE Try(Try(Try(Try(Try(Try(Try(Try(0, 128), 64), 32), 16), 8), 4),
                 2), 1)

\* One digit per round, for the digits k..last of a.  The remainder stays
\* below the divisor, so its leading byte is 0 at the end of every round.
RECURSIVE DivLoop(_, _, _, _, _, _)
DivLoop(a, b33, k, last, q, r) ==
    IF k > last THEN [q |-> q, r |-> r]
    ELSE LET r2 == SubSeq(r, 2, 33) \o <<a[k]>>
             d  == QuotientDigit(r2, b33)
             r3 == SubSeq(SubBytes(r2, MulSmall(b33, d)), 1, 33)
             q2 == Append(q, d)
         IN  IF Len(q2) = k /\ r3[1] = 0
             THEN DivLoop(a, b33, k + 1, last, q2, r3)
             ELSE [q |-> <<>>, r |-> <<>>]

\* the digits k..last, continuing from the state s of the digits before
DivDigits(a, b33, k, last, s) == DivLoop(a, b33, k, last, s.q, s.r)

DivWide(a, b33) ==
    DivDigits(a, b33, 25, 32,
      DivDigits(a, b33, 17, 24,
        DivDigits(a, b33, 9, 16,
          DivLoop(a, b33, 1, 8, <<>>, Zeros(33))))).q

word_div(a, b) == DivWide(a, <<0>> \o b)

\* alloy keccak256 is an external library function; the model only needs a
\* deterministic map from a byte string to 32 bytes, and uses this stand-in
\* (a position-weighted checksum spread over the 32 bytes).
WeightedSum(data) ==
    SumRange([i \in 1..Len(data) |-> ((i + 1) * (data[i] + 1)) % 65521],
             1, Len(data)) % 65521

keccak256(data) ==
    LET h == WeightedSum(data) + Len(data)
    IN  [i \in 1..32 |-> (h * i + 7 * i * i + 197) % 256]

----------------------------------------------------------------------------
(* Accounts and frames *)

\* Account::default()
DefaultAccount ==
    [balance |-> ZeroWord, code |-> <<>>, jumpdests |-> {},
     storage |-> <<>>, nonce |-> 0]

\* Address::ZERO, the caller of the outermost frame.
ZeroAddress == Zeros(20)

\* "0x1000000000000000000000000000000000000000", the outermost callee.
RootAddress == [i \in 1..20 |-> IF i = 1 THEN 16 ELSE 0]

\* Machine::analyze_jumpdests: scan from offset 0, skip PUSH immediates.
\* Offsets are 0-based as in the code; code[i] of the source is code[i + 1].
RECURSIVE ScanJumpdests(_, _, _)
ScanJumpdests(code, i, dests) ==
    IF i >= Len(code) THEN dests
    ELSE LET opcode == code[i + 1]
         IN  IF opcode = JUMPDEST
             THEN ScanJumpdests(code, i + 1, dests \cup {i})
             ELSE IF opcode >= PUSH1 /\ opcode <= PUSH32
             THEN ScanJumpdests(code, i + (opcode - PUSH1 + 1) + 1, dests)
             ELSE ScanJumpdests(code, i + 1, dests)

analyze_jumpdests(code) == ScanJumpdests(code, 0, {})

\* a flat price list: every opcode that costs anything costs 3
get_opcode_cost_Flat(opcode) ==
    IF opcode \in {ADD, SUB, POP, LT, GT, EQ, ISZERO, MUL, DIV, MLOAD, MSTORE,
                   SSTORE, SLOAD, JUMP, JUMPI, SHA3} THEN 3
    ELSE IF opcode >= PUSH1 /\ opcode <= SWAP16 THEN 3
    ELSE 0

\* Machine::get_opcode_cost
get_opcode_cost(opcode) ==
    IF opcode \in {STOP, JUMPDEST} THEN 0
    ELSE IF opcode \in {ADD, SUB, POP, LT, GT, EQ, ISZERO} THEN 3
    ELSE IF opcode \in {MUL, DIV} THEN 5
    ELSE IF opcode >= PUSH1 /\ opcode <= PUSH32 THEN 3
    ELSE IF opcode >= DUP1 /\ opcode <= DUP16 THEN 3
    ELSE IF opcode >= SWAP1 /\ opcode <= SWAP16 THEN 3
    ELSE IF opcode \in {MLOAD, MSTORE} THEN 3
    ELSE IF opcode = SSTORE THEN 20000
    ELSE IF opcode = SLOAD THEN 800
    ELSE IF opcode = JUMP THEN 8
    ELSE IF opcode = JUMPI THEN 10
    ELSE IF opcode = SHA3 THEN 30
    ELSE 0

\* a cost without the quadratic term
calculate_memory_cost_Linear(words) ==
    IF words >= 524288 THEN UsizeHuge ELSE words * 3

\* Frame::calculate_memory_cost: 3 * words + words * words / 512.  The
\* quotient is computed without forming words * words (which does not fit the
\* checker's integers); from 2^19 words on the cost exceeds every budget of
\* the model and is collapsed to UsizeHuge.  From 2^32 words on the u64
\* product wraps in a build without overflow checks: the wrapped cost is
\* still at least 3 * words, above every budget of the model.  (A build with
\* overflow checks aborts there instead; the model follows the wrapping
\* build.)
calculate_memory_cost(words) ==
    IF words >= 524288 THEN UsizeHuge
    ELSE (words * 3)
         + (words * (words \div 512) + (words * (words % 512)) \div 512)

\* Frame::charge_memory_expansion_gas: [ok, frame]; on failure the frame is
\* returned as it was.
charge_memory_expansion_gas(f, offset, size) ==
    LET new_size_bytes == saturating_add(offset, size)
        new_size_words == ((new_size_bytes - 1) \div 32) + 1
        old_cost == calculate_memory_cost(f.memory_size_words)
        new_cost == calculate_memory_cost(new_size_words)
        cost_diff == new_cost - old_cost
    IN  IF new_size_bytes = 0 THEN [ok |-> TRUE, frame |-> f]
        ELSE IF new_size_words > f.memory_size_words
        THEN IF f.gas < cost_diff THEN [ok |-> FALSE, frame |-> f]
             ELSE [ok |-> TRUE,
                   frame |-> [f EXCEPT !.gas = f.gas - cost_diff,
                                       !.memory_size_words = new_size_words]]
        ELSE [ok |-> TRUE, frame |-> f]

\* Frame::memory_resize, on the memory buffer.
memory_resize(memory, new_size) ==
    IF new_size > Len(memory)
    THEN memory \o Zeros(new_size - Len(memory))
    ELSE memory

\* a copy that lays the bytes down in little-endian order
copy_from_slice_Reversed(buf, offset, bytes) ==
    [i \in 1..Len(buf) |->
        IF i > offset /\ i <= offset + Len(bytes)
        THEN bytes[Len(bytes) + 1 - (i - offset)]
        ELSE buf[i]]

\* buf[offset .. offset + Len(bytes)].copy_from_slice(bytes)
copy_from_slice(buf, offset, bytes) ==
    [i \in 1..Len(buf) |->
        IF i > offset /\ i <= offset + Len(bytes) THEN bytes[i - offset]
        ELSE buf[i]]

\* &buf[offset .. offset + size], in range
Slice(buf, offset, size) == SubSeq(buf, offset + 1, offset + size)

\* buf.get(offset .. offset + size).unwrap_or_default(): the slice when the
\* whole range lies inside the buffer, the empty slice otherwise.
get_or_default(buf, offset, size) ==
    IF saturating_add(offset, size) <= Len(buf)
    THEN Slice(buf, offset, size)
    ELSE <<>>

----------------------------------------------------------------------------
(* The machine as a value: the operators below map a machine to the machine *)
(* after the code has run, and the actions apply them to the variables.     *)

Machine ==
    [accounts |-> accounts, call_stack |-> call_stack,
     return_data |-> return_data, last_call_return |-> last_call_return,
     result |-> result, ended_frame |-> ended_frame, created |-> created,
     stored |-> stored]

\* ExecutionResult; "running" while run has not returned, "Panic" when the
\* thread panicked instead of returning.
Outcome(kind, data) == [kind |-> kind, data |-> data]

Running == Outcome("running", <<>>)

\* the machine with its top frame replaced by f
WithTop(m, f) == [m EXCEPT !.call_stack[Len(m.call_stack)] = f]

\* a failure that only ends the failing frame when it has a caller: the
\* caller is handed the status word 0 and run goes on
Fail_Caught(m, f, kind) ==
    LET n == Len(m.call_stack)
    IN  IF n > 1
        THEN [m EXCEPT
                !.call_stack =
                    [i \in 1..(n - 1) |->
                        IF i = n - 1
                        THEN [m.call_stack[i] EXCEPT
                                !.stack = Append(@, ZeroWord)]
                        ELSE m.call_stack[i]],
                !.ended_frame = <<f>>,
                !.created = SubSeq(m.created, 1, n - 1)]
        ELSE [WithTop(m, f) EXCEPT !.result = Outcome(kind, <<>>)]

\* an error return that puts the accounts back as they were when the
\* failing frame was created
Fail_RollsBack(m, f, kind) ==
    [WithTop(m, f) EXCEPT !.result = Outcome(kind, <<>>),
                          !.accounts = m.created[Len(m.created)].accounts]

\* an error return that also empties the return-data buffer
Fail_ClearsData(m, f, kind) ==
    [WithTop(m, f) EXCEPT !.result = Outcome(kind, <<>>),
                          !.return_data = <<>>]

\* return Err(kind) with the top frame left as f
Fail(m, f, kind) == [WithTop(m, f) EXCEPT !.result = Outcome(kind, <<>>)]

\* a pop() that found the stack empty: the earlier pops of the opcode have
\* emptied the stack, then ok_or(StackUnderflow)? returns
Underflow(m, f) == Fail(m, [f EXCEPT !.stack = <<>>], "StackUnderflow")

\* the k-th word popped by consecutive pops (k = 1 is the top of the stack)
Popped(f, k) == f.stack[Len(f.stack) - k + 1]

\* the frame after n pops
Drop(f, n) == [f EXCEPT !.stack = SubSeq(f.stack, 1, Len(f.stack) - n)]

\* frame.stack.push(w)
Push(f, w) == [f EXCEPT !.stack = Append(f.stack, w)]

\* the history entry of a frame: the machine state it was created in and
\* the return window of the CALL that created it
CreationRecord(f, m, ret_offset, ret_size) ==
    [frame |-> f, accounts |-> m.accounts, return_data |-> m.return_data,
     last_call_return |-> m.last_call_return,
     ret_offset |-> ret_offset, ret_size |-> ret_size]

\* a frame end that hands the caller its forwarded gas back only when the
\* child used none of it
RefundGas_Dropped(caller_gas, ended_gas) == caller_gas

\* caller_frame.gas += ended_frame.gas
RefundGas(caller_gas, ended_gas) == caller_gas + ended_gas

\* the return window handle_frame_end copies the return data to
PendingWindow(m) == m.last_call_return

\* Machine::handle_frame_end
handle_frame_end(m, success, offset, size) ==
    LET n      == Len(m.call_stack)
        ended  == m.call_stack[n]
        rest   == SubSeq(m.call_stack, 1, n - 1)
        rd     == IF size > 0
                  THEN get_or_default(ended.memory, offset, size)
                  ELSE <<>>
        m1     == [m EXCEPT !.call_stack = rest,
                            !.return_data = rd,
                            !.ended_frame = <<ended>>,
                            !.created = SubSeq(m.created, 1, n - 1)]
    IN  IF rest = <<>> THEN m1
        ELSE LET caller == rest[n - 1]
                 c1 == [caller EXCEPT
                          !.gas = RefundGas(caller.gas, ended.gas),
                          !.stack = Append(caller.stack,
                                           IF success THEN WordFromNat(1)
                                           ELSE ZeroWord)]
                 ret_offset == PendingWindow(m)[1]
                 ret_size   == PendingWindow(m)[2]
                 size_to_copy == Min(Len(rd), ret_size)
                 c2 == IF size_to_copy > 0
                       THEN [c1 EXCEPT !.memory =
                               copy_from_slice(
                                 memory_resize(c1.memory,
                                               ret_offset + size_to_copy),
                                 ret_offset,
                                 SubSeq(rd, 1, size_to_copy))]
                       ELSE c1
             IN  WithTop(m1, c2)

\* Frame::read_opcode followed by the base charge of step (lines 175-182),
\* for a frame with pc inside the code and enough gas
Charged(f) ==
    [f EXCEPT !.pc = f.pc + 1,
              !.gas = f.gas - get_opcode_cost(f.code[f.pc + 1])]

----------------------------------------------------------------------------
(* The arms of the match in Machine::step.  m is the machine, f its top    *)
(* frame after read_opcode and the base charge.                            *)

\* RETURN (success) and REVERT (not success), lines 186-198
op_RETURN(m, f, success) ==
    IF Len(f.stack) < 2 THEN Underflow(m, f)
    ELSE LET offset == as_limb0(Popped(f, 1))
             size   == as_limb0(Popped(f, 2))
             f2     == Drop(f, 2)
             ch     == charge_memory_expansion_gas(f2, offset, size)
         IN  IF ~ch.ok THEN Fail(m, f2, "OutOfGas")
             ELSE LET m2 == handle_frame_end(WithTop(m, ch.frame),
                                             success, offset, size)
                  IN  IF success THEN m2
                      ELSE [m2 EXCEPT
                              !.result = Outcome("Revert", m2.return_data)]

\* results that take the first word popped as the left operand throughout
BinaryResult_FirstLeft(opcode, first, second) ==
    IF opcode = ADD THEN overflowing_add(first, second)
    ELSE IF opcode = MUL THEN overflowing_mul(first, second)
    ELSE IF opcode = SUB THEN overflowing_sub(first, second)
    ELSE IF opcode = DIV
    THEN (IF is_zero(second) THEN ZeroWord ELSE word_div(first, second))
    ELSE IF opcode = LT
    THEN (IF word_lt(first, second) THEN WordFromNat(1) ELSE ZeroWord)
    ELSE IF opcode = GT
    THEN (IF word_lt(second, first) THEN WordFromNat(1) ELSE ZeroWord)
    ELSE (IF second = first THEN WordFromNat(1) ELSE ZeroWord)

\* the result word of a two-operand opcode; first and second are the words
\* in the order the arm pops them
BinaryResult(opcode, first, second) ==
    IF opcode = ADD THEN overflowing_add(first, second)
    ELSE IF opcode = MUL THEN overflowing_mul(first, second)
    ELSE IF opcode = SUB THEN overflowing_sub(second, first)
    ELSE IF opcode = DIV
    THEN (IF is_zero(first) THEN ZeroWord ELSE word_div(second, first))
    ELSE IF opcode = LT
    THEN (IF word_lt(second, first) THEN WordFromNat(1) ELSE ZeroWord)
    ELSE IF opcode = GT
    THEN (IF word_lt(first, second) THEN WordFromNat(1) ELSE ZeroWord)
    ELSE (IF second = first THEN WordFromNat(1) ELSE ZeroWord)

\* ADD, MUL, SUB, DIV, LT, GT, EQ, lines 199-240
op_Binary(m, f, opcode) ==
    IF Len(f.stack) < 2 THEN Underflow(m, f)
    ELSE WithTop(m, Push(Drop(f, 2),
                         BinaryResult(opcode, Popped(f, 1), Popped(f, 2))))

\* ISZERO, lines 241-244
op_ISZERO(m, f) ==
    IF Len(f.stack) < 1 THEN Underflow(m, f)
    ELSE WithTop(m, Push(Drop(f, 1),
                         IF is_zero(Popped(f, 1)) THEN WordFromNat(1)
                         ELSE ZeroWord))

\* SHA3, lines 245-256
op_SHA3(m, f) ==
    IF Len(f.stack) < 2 THEN Underflow(m, f)
    ELSE LET offset == as_limb0(Popped(f, 1))
             size   == as_limb0(Popped(f, 2))
             f2     == Drop(f, 2)
             ch     == charge_memory_expansion_gas(f2, offset, size)
         IN  IF ~ch.ok THEN Fail(m, f2, "OutOfGas")
             ELSE LET mem == memory_resize(ch.frame.memory, offset + size)
                      hash == keccak256(Slice(mem, offset, size))
                  IN  WithTop(m, Push([ch.frame EXCEPT !.memory = mem], hash))

\* the usize offset CALLDATALOAD reads at, from the popped word
calldata_offset(w) == as_limb0(w)

\* the 32-byte window of CALLDATALOAD at a usize offset, lines 259-265
calldata_window(calldata, offset) ==
    IF offset < Len(calldata)
    THEN LET end == Min(offset + 32, Len(calldata))
             slice == SubSeq(calldata, offset + 1, end)
         IN  slice \o Zeros(32 - Len(slice))
    ELSE Zeros(32)

\* CALLDATALOAD, lines 257-268
op_CALLDATALOAD(m, f) ==
    IF Len(f.stack) < 1 THEN Underflow(m, f)
    ELSE LET offset == calldata_offset(Popped(f, 1))
         IN  WithTop(m, Push(Drop(f, 1), calldata_window(f.calldata, offset)))

\* MLOAD, lines 269-276
op_MLOAD(m, f) ==
    IF Len(f.stack) < 1 THEN Underflow(m, f)
    ELSE LET offset == as_limb0(Popped(f, 1))
             f2     == Drop(f, 1)
             ch     == charge_memory_expansion_gas(f2, offset, 32)
         IN  IF ~ch.ok THEN Fail(m, f2, "OutOfGas")
             ELSE LET mem == memory_resize(ch.frame.memory, offset + 32)
                  IN  WithTop(m, Push([ch.frame EXCEPT !.memory = mem],
                                      Slice(mem, offset, 32)))

\* MSTORE, lines 277-283
op_MSTORE(m, f) ==
    IF Len(f.stack) < 2 THEN Underflow(m, f)
    ELSE LET offset == as_limb0(Popped(f, 1))
             value  == Popped(f, 2)
             f2     == Drop(f, 2)
             ch     == charge_memory_expansion_gas(f2, offset, 32)
         IN  IF ~ch.ok THEN Fail(m, f2, "OutOfGas")
             ELSE LET mem == memory_resize(ch.frame.memory, offset + 32)
                  IN  WithTop(m, [ch.frame EXCEPT !.memory =
                                    copy_from_slice(mem, offset, value)])

\* a read that finds no account (storage kept per frame, not per account)
storage_get_Absent(accs, address, key) == ZeroWord

\* storage.get(&key).cloned().unwrap_or_default() of the account at address
storage_get(accs, address, key) ==
    IF address \in DOMAIN accs
    THEN (IF key \in DOMAIN accs[address].storage
          THEN accs[address].storage[key] ELSE ZeroWord)
    ELSE ZeroWord

\* an insert that replaces the account by a fresh one holding the entry
storage_insert_Fresh(accs, address, key, value) ==
    [a \in (DOMAIN accs) \cup {address} |->
        IF a = address
        THEN [DefaultAccount EXCEPT !.storage = (key :> value)]
        ELSE accs[a]]

\* accounts.entry(address).or_default().storage.insert(key, value)
storage_insert(accs, address, key, value) ==
    LET acc == IF address \in DOMAIN accs THEN accs[address]
               ELSE DefaultAccount
        st  == [k \in (DOMAIN acc.storage) \cup {key} |->
                   IF k = key THEN value ELSE acc.storage[k]]
        new == [acc EXCEPT !.storage = st]
    IN  [a \in (DOMAIN accs) \cup {address} |->
            IF a = address THEN new ELSE accs[a]]

\* SLOAD, lines 284-288
op_SLOAD(m, f) ==
    IF Len(f.stack) < 1 THEN Underflow(m, f)
    ELSE WithTop(m, Push(Drop(f, 1),
                         storage_get(m.accounts, f.callee, Popped(f, 1))))

\* the history after a store of value at (address, key)
record_store(log, address, key, value) ==
    [p \in (DOMAIN log) \cup {<<address, key>>} |->
        IF p = <<address, key>> THEN value ELSE log[p]]

\* SSTORE, lines 289-297
op_SSTORE(m, f) ==
    IF Len(f.stack) < 2 THEN Underflow(m, f)
    ELSE [WithTop(m, Drop(f, 2)) EXCEPT
            !.accounts = storage_insert(m.accounts, f.callee,
                                        Popped(f, 1), Popped(f, 2)),
            !.stored = record_store(m.stored, f.callee,
                                    Popped(f, 1), Popped(f, 2))]

\* the usize destination JUMP and JUMPI take from the popped word
jump_dest(w) == as_limb0(w)

\* JUMP, lines 298-304
op_JUMP(m, f) ==
    IF Len(f.stack) < 1 THEN Underflow(m, f)
    ELSE LET dest == jump_dest(Popped(f, 1))
             f2   == Drop(f, 1)
         IN  IF dest \notin f.jumpdests THEN Fail(m, f2, "InvalidJump")
             ELSE WithTop(m, [f2 EXCEPT !.pc = dest])

\* the outcome of JUMPI once dest and cond are popped, lines 309-313
jumpi_outcome(m, f2, dest, cond) ==
    IF dest \notin f2.jumpdests THEN Fail(m, f2, "InvalidJump")
    ELSE IF ~is_zero(cond) THEN WithTop(m, [f2 EXCEPT !.pc = dest])
    ELSE WithTop(m, f2)

\* JUMPI, lines 305-314
op_JUMPI(m, f) ==
    IF Len(f.stack) < 2 THEN Underflow(m, f)
    ELSE jumpi_outcome(m, Drop(f, 2), jump_dest(Popped(f, 1)), Popped(f, 2))

\* JUMPDEST, lines 315-317
op_JUMPDEST(m, f) == WithTop(m, f)

\* a push that moves the pc past its immediate also when the code ends
\* inside it
op_PUSH_PastEnd(m, f, op) ==
    LET end == f.pc + (op - PUSH1 + 1)
        existing_bytes == SubSeq(f.code, f.pc + 1, Min(end, Len(f.code)))
    IN  WithTop(m, [Push(f, from_be_slice(
                              existing_bytes
                              \o Zeros((op - PUSH1 + 1) - Len(existing_bytes))))
                      EXCEPT !.pc = end])

\* PUSH1..PUSH32, lines 318-334
op_PUSH(m, f, op) ==
    LET num_bytes_to_push == op - PUSH1 + 1
        start == f.pc
        end   == f.pc + num_bytes_to_push
    IN  IF end > Len(f.code)
        THEN LET existing_bytes == SubSeq(f.code, start + 1, Len(f.code))
                 value_bytes_padded ==
                     existing_bytes
                     \o Zeros(num_bytes_to_push - Len(existing_bytes))
             IN  WithTop(m, [Push(f, from_be_slice(value_bytes_padded))
                               EXCEPT !.pc = Len(f.code)])
        ELSE WithTop(m, [Push(f, from_be_slice(SubSeq(f.code, start + 1, end)))
                           EXCEPT !.pc = end])

\* POP, lines 335-337
op_POP(m, f) ==
    IF Len(f.stack) < 1 THEN Underflow(m, f)
    ELSE WithTop(m, Drop(f, 1))

\* DUP1..DUP16, lines 338-345
op_DUP(m, f, op) ==
    LET index == op - DUP1
    IN  IF Len(f.stack) <= index THEN Fail(m, f, "StackUnderflow")
        ELSE WithTop(m, Push(f, f.stack[Len(f.stack) - index]))

\* SWAP1..SWAP16, lines 346-354
op_SWAP(m, f, op) ==
    LET index == op - SWAP1 + 1
        a == Len(f.stack)
        b == Len(f.stack) - index
    IN  IF Len(f.stack) <= index THEN Fail(m, f, "StackUnderflow")
        ELSE WithTop(m, [f EXCEPT !.stack =
                           [f.stack EXCEPT ![a] = f.stack[b],
                                           ![b] = f.stack[a]]])

\* forwarding that keeps nothing back: all the gas, capped by the request
gas_to_send_All(frame_gas, gas_limit_u256) ==
    Min(frame_gas, IF above_u64(gas_limit_u256) THEN frame_gas
                   ELSE as_limb0(gas_limit_u256))

\* the gas CALL forwards: 63/64 of the frame's gas, capped by the request
gas_to_send(frame_gas, gas_limit_u256) ==
    LET gas_limit == IF above_u64(gas_limit_u256) THEN frame_gas
                     ELSE as_limb0(gas_limit_u256)
    IN  Min(frame_gas - (frame_gas \div 64), gas_limit)

\* self.accounts.get(&to_address).cloned().unwrap_or_default()
target_account(accs, to_address) ==
    IF to_address \in DOMAIN accs THEN accs[to_address] ELSE DefaultAccount

\* a CALL that gives the child its gas without taking it from the caller
op_CALL_NotDeducted(m, f) ==
    IF Len(f.stack) < 7 THEN Underflow(m, f)
    ELSE LET gas_limit_u256 == Popped(f, 1)
             to_address  == address_from_word(Popped(f, 2))
             args_offset == as_limb0(Popped(f, 4))
             args_size   == as_limb0(Popped(f, 5))
             ret_offset  == as_limb0(Popped(f, 6))
             ret_size    == as_limb0(Popped(f, 7))
             f2  == Drop(f, 7)
             ch1 == charge_memory_expansion_gas(f2, args_offset, args_size)
             ch2 == charge_memory_expansion_gas(ch1.frame, ret_offset, ret_size)
         IN  IF ~ch1.ok THEN Fail(m, f2, "OutOfGas")
             ELSE IF ~ch2.ok THEN Fail(m, ch1.frame, "OutOfGas")
             ELSE LET send == gas_to_send(ch2.frame.gas, gas_limit_u256)
                      f3 == ch2.frame
                      m3 == [WithTop(m, f3) EXCEPT
                               !.last_call_return = <<ret_offset, ret_size>>]
                      target == target_account(m.accounts, to_address)
                      in_range == args_offset + args_size <= Len(f3.memory)
                      new_frame ==
                          [pc |-> 0, gas |-> send,
                           calldata |-> IF args_size > 0
                                        THEN Slice(f3.memory, args_offset,
                                                   args_size)
                                        ELSE <<>>,
                           code |-> target.code,
                           jumpdests |-> target.jumpdests,
                           caller |-> f3.callee, callee |-> to_address,
                           stack |-> <<>>, memory |-> <<>>,
                           memory_size_words |-> 0]
                  IN  IF args_size > 0 /\ ~in_range
                      THEN \* frame.memory[args_offset..args_offset +
                           \* args_size] indexes past the buffer: panic
                           [m3 EXCEPT !.result = Outcome("Panic", <<>>)]
                      ELSE [m3 EXCEPT
                              !.call_stack = Append(m3.call_stack, new_frame),
                              !.created = Append(m3.created,
                                  CreationRecord(new_frame, m3,
                                                 ret_offset, ret_size))]

\* CALL, lines 355-396
op_CALL(m, f) ==
    IF Len(f.stack) < 7 THEN Underflow(m, f)
    ELSE LET gas_limit_u256 == Popped(f, 1)
             to_address  == address_from_word(Popped(f, 2))
             args_offset == as_limb0(Popped(f, 4))
             args_size   == as_limb0(Popped(f, 5))
             ret_offset  == as_limb0(Popped(f, 6))
             ret_size    == as_limb0(Popped(f, 7))
             f2  == Drop(f, 7)
             ch1 == charge_memory_expansion_gas(f2, args_offset, args_size)
             ch2 == charge_memory_expansion_gas(ch1.frame, ret_offset, ret_size)
         IN  IF ~ch1.ok THEN Fail(m, f2, "OutOfGas")
             ELSE IF ~ch2.ok THEN Fail(m, ch1.frame, "OutOfGas")
             ELSE LET send == gas_to_send(ch2.frame.gas, gas_limit_u256)
                      f3 == [ch2.frame EXCEPT !.gas = ch2.frame.gas - send]
                      m3 == [WithTop(m, f3) EXCEPT
                               !.last_call_return = <<ret_offset, ret_size>>]
                      target == target_account(m.accounts, to_address)
                      in_range == args_offset + args_size <= Len(f3.memory)
                      new_frame ==
                          [pc |-> 0, gas |-> send,
                           calldata |-> IF args_size > 0
                                        THEN Slice(f3.memory, args_offset,
                                                   args_size)
                                        ELSE <<>>,
                           code |-> target.code,
                           jumpdests |-> target.jumpdests,
                           caller |-> f3.callee, callee |-> to_address,
                           stack |-> <<>>, memory |-> <<>>,
                           memory_size_words |-> 0]
                  IN  IF args_size > 0 /\ ~in_range
                      THEN \* frame.memory[args_offset..args_offset +
                           \* args_size] indexes past the buffer: panic
                           [m3 EXCEPT !.result = Outcome("Panic", <<>>)]
                      ELSE [m3 EXCEPT
                              !.call_stack = Append(m3.call_stack, new_frame),
                              !.created = Append(m3.created,
                                  CreationRecord(new_frame, m3,
                                                 ret_offset, ret_size))]

\* a size that counts only the bytes the caller's return window took
op_RETURNDATASIZE_Window(m, f) ==
    WithTop(m, Push(f, WordFromNat(Min(Len(m.return_data),
                                       m.last_call_return[2]))))

\* RETURNDATASIZE, lines 397-399
op_RETURNDATASIZE(m, f) ==
    WithTop(m, Push(f, WordFromNat(Len(m.return_data))))

\* a copy that charges the expansion before it looks at the range
op_RETURNDATACOPY_ChargeFirst(m, f) ==
    IF Len(f.stack) < 3 THEN Underflow(m, f)
    ELSE LET mem_offset    == as_limb0(Popped(f, 1))
             return_offset == as_limb0(Popped(f, 2))
             size          == as_limb0(Popped(f, 3))
             ch == charge_memory_expansion_gas(Drop(f, 3), mem_offset, size)
         IN  IF ~ch.ok THEN Fail(m, Drop(f, 3), "OutOfGas")
             ELSE IF saturating_add(return_offset, size) > Len(m.return_data)
             THEN Fail(m, ch.frame, "InvalidOpcode")
             ELSE LET mem == memory_resize(ch.frame.memory, mem_offset + size)
                  IN  WithTop(m, [ch.frame EXCEPT !.memory =
                        copy_from_slice(mem, mem_offset,
                                        Slice(m.return_data, return_offset,
                                              size))])

\* RETURNDATACOPY, lines 400-412
op_RETURNDATACOPY(m, f) ==
    IF Len(f.stack) < 3 THEN Underflow(m, f)
    ELSE LET mem_offset    == as_limb0(Popped(f, 1))
             return_offset == as_limb0(Popped(f, 2))
             size          == as_limb0(Popped(f, 3))
             f2 == Drop(f, 3)
             ch == charge_memory_expansion_gas(f2, mem_offset, size)
         IN  IF saturating_add(return_offset, size) > Len(m.return_data)
             THEN Fail(m, f2, "InvalidOpcode")
             ELSE IF ~ch.ok THEN Fail(m, f2, "OutOfGas")
             ELSE LET mem == memory_resize(ch.frame.memory, mem_offset + size)
                  IN  WithTop(m, [ch.frame EXCEPT !.memory =
                        copy_from_slice(mem, mem_offset,
                                        Slice(m.return_data, return_offset,
                                              size))])

\* any other opcode byte, lines 413-415
op_Invalid(m, f) == Fail(m, f, "InvalidOpcode")

----------------------------------------------------------------------------
(* Bounds of the model *)

\* every gas limit 0..MaxSmallGas is tried, so that each opcode of the short
\* programs is also reached with too little gas
MaxSmallGas == 40

\* a gas limit that lets every program but the loop run to its end
LargeGas == 100000

\* the gas limit of the loop program: enough for 70 rounds
StackLoopGas == 4000

\* the call stack is explored up to this depth; the code sets no limit
MaxDepth == 5

\* the number of PUSH1 1 in front of the single opcode of the OpFamily codes
MaxPrefix == 3

\* Vec::with_capacity(1024), the depth the operand stack is meant to keep to
StackLimit == 1024

----------------------------------------------------------------------------
(* The programs the machine is run on.  The first are those of             *)
(* src/tests/evm_tests.rs, byte for byte.                                  *)

\* test_add_and_stop
Code_AddReturn ==
    <<96, 5, 96, 10, 1, 96, 0, 82, 96, 32, 96, 0, 243>>

\* test_sload_sstore
Code_SloadSstore ==
    <<96, 66, 96, 1, 85, 96, 1, 84, 96, 0, 82, 96, 32, 96, 0, 243>>

\* test_calldataload
Code_Calldataload ==
    <<96, 0, 53, 96, 0, 82, 96, 32, 96, 0, 243>>

\* test_mload_mstore
Code_MloadMstore ==
    <<127, 0, 0, 0, 0, 0, 0, 0, 0, 0, 0, 0, 0, 0, 0, 0, 0, 0, 0, 0, 0, 0,
      0, 0, 0, 1, 35, 69, 103, 137, 171, 205, 239, 96, 0, 82, 96, 0, 81,
      96, 0, 82, 96, 32, 96, 0, 243>>

\* test_arithmetic
Code_Arithmetic ==
    <<96, 10, 96, 5, 2, 96, 2, 3, 96, 4, 4, 96, 0, 82, 96, 32, 96, 0, 243>>

\* test_jumpi_and_iszero
Code_JumpiIszero ==
    <<96, 5, 96, 3, 17, 21, 96, 14, 87, 96, 170, 96, 17, 86, 91, 96, 187,
      91, 96, 0, 82, 96, 32, 96, 0, 243>>

\* test_sha3
Code_Sha3 ==
    <<100, 104, 101, 108, 108, 111, 96, 0, 82, 96, 5, 96, 27, 32, 96, 0,
      82, 96, 32, 96, 0, 243>>

\* test_out_of_gas
Code_OutOfGas ==
    <<96, 1, 96, 2, 1, 0>>

\* test_invalid_jump
Code_InvalidJump ==
    <<96, 5, 86, 0>>

\* test_invalid_opcode
Code_InvalidOpcode ==
    <<12, 0>>

\* test_revert
Code_Revert ==
    <<96, 222, 96, 0, 82, 96, 1, 96, 31, 253>>

\* test_simple_call_and_return_data, sub_code
Code_CallSub ==
    <<96, 170, 96, 31, 82, 96, 1, 96, 31, 243>>

\* test_simple_call_and_return_data, main_code
Code_CallMain ==
    <<96, 1, 96, 0, 96, 0, 96, 0, 96, 0, 115, 32, 0, 0, 0, 0, 0, 0, 0, 0,
      0, 0, 0, 0, 0, 0, 0, 0, 0, 0, 0, 97, 19, 136, 241, 80, 61, 96, 0, 82,
      96, 32, 96, 0, 243>>

\* CALL whose argument range [0, 1) lies outside the (empty) memory buffer
Code_CallPanic ==
    <<96, 0, 96, 0, 96, 1, 96, 0, 96, 0, 96, 0, 96, 0, 241, 0>>

\* seven zero words and a CALL to address 0, all of base cost 0
Code_Recursion ==
    <<61, 61, 61, 61, 61, 61, 61, 241>>

\* a loop that leaves 15 more words on the stack each time round
Code_StackLoop ==
    <<96, 2, 91, 128, 128, 128, 128, 128, 128, 128, 128, 128, 128, 128,
      128, 128, 128, 128, 128, 86>>

\* CALL B with return window (0, 32)
Code_NestedRootA ==
    <<96, 32, 96, 0, 96, 0, 96, 0, 96, 0, 115, 48, 0, 0, 0, 0, 0, 0, 0, 0,
      0, 0, 0, 0, 0, 0, 0, 0, 0, 0, 0, 97, 19, 136, 241, 0>>

\* B: store a word, CALL address 0 with return window (0, 0), return 32 bytes
Code_NestedChildA ==
    <<96, 170, 96, 0, 82, 61, 61, 61, 61, 61, 61, 61, 241, 80, 96, 32, 96,
      0, 243>>

\* CALL B with return window (0, 0)
Code_NestedRootB ==
    <<96, 0, 96, 0, 96, 0, 96, 0, 96, 0, 115, 48, 0, 0, 0, 0, 0, 0, 0, 0,
      0, 0, 0, 0, 0, 0, 0, 0, 0, 0, 0, 97, 19, 136, 241, 0>>

\* B: store a word, CALL address 0 with return window (64, 32), return 32 bytes
Code_NestedChildB ==
    <<96, 170, 96, 0, 82, 96, 32, 96, 64, 96, 0, 96, 0, 96, 0, 96, 0, 96,
      0, 241, 80, 96, 32, 96, 0, 243>>

\* CALL B with return window (0, 0), then REVERT with the range [64, 96)
Code_RevertAfterCall ==
    <<96, 0, 96, 0, 96, 0, 96, 0, 96, 0, 115, 48, 0, 0, 0, 0, 0, 0, 0, 0,
      0, 0, 0, 0, 0, 0, 0, 0, 0, 0, 0, 97, 19, 136, 241, 96, 32, 96, 64,
      253>>

\* CALL the sub-contract with return window (3, 1), then read memory
Code_CallWindow ==
    <<96, 1, 96, 3, 96, 0, 96, 0, 96, 0, 115, 32, 0, 0, 0, 0, 0, 0, 0, 0,
      0, 0, 0, 0, 0, 0, 0, 0, 0, 0, 0, 97, 19, 136, 241, 80, 96, 0, 81, 0>>

\* RETURN of [16, 48) from a 32-byte memory buffer
Code_ReturnPartial ==
    <<96, 170, 96, 0, 82, 96, 32, 96, 16, 243>>

\* RETURN of [64, 65) from an empty memory buffer
Code_ReturnBeyond ==
    <<96, 1, 96, 64, 243>>

\* RETURN of size 0 at offset 5
Code_ReturnZero ==
    <<96, 170, 96, 0, 82, 96, 0, 96, 5, 243>>

\* REVERT of [16, 48) from a 32-byte memory buffer
Code_RevertPartial ==
    <<96, 170, 96, 0, 82, 96, 32, 96, 16, 253>>

\* DIV by zero, LT, EQ, SWAP1, DUP2, POP
Code_Misc ==
    <<96, 7, 96, 0, 4, 96, 3, 96, 4, 16, 96, 9, 20, 144, 129, 80, 80, 80,
      0>>

\* CALL the sub-contract, copy its byte, then copy out of range
Code_ReturnDataCopy ==
    <<96, 1, 96, 0, 96, 0, 96, 0, 96, 0, 115, 32, 0, 0, 0, 0, 0, 0, 0, 0,
      0, 0, 0, 0, 0, 0, 0, 0, 0, 0, 0, 97, 19, 136, 241, 80, 61, 96, 0, 96,
      32, 62, 96, 2, 96, 0, 96, 0, 62, 0>>

\* a PUSH2 with one immediate byte left
Code_PushTruncated ==
    <<96, 1, 97, 171>>

\* MLOAD at offset 2^256 - 1
Code_MemHuge ==
    <<127, 255, 255, 255, 255, 255, 255, 255, 255, 255, 255, 255, 255, 255,
      255, 255, 255, 255, 255, 255, 255, 255, 255, 255, 255, 255, 255, 255,
      255, 255, 255, 255, 255, 81, 0>>

\* A: with calldata word 0, read key 2, store 0x42 at key 1, read it, CALL B,
\* read key 1 again; with a nonzero calldata word (offset 59), read key 1,
\* store 0x43 at key 1, read it
Code_StorageRoot ==
    <<96, 0, 53, 96, 59, 87, 96, 2, 84, 80, 96, 66, 96, 1, 85, 96, 1, 84,
      80, 96, 0, 96, 0, 96, 0, 96, 0, 96, 0, 115, 48, 0, 0, 0, 0, 0, 0, 0,
      0, 0, 0, 0, 0, 0, 0, 0, 0, 0, 0, 0, 97, 255, 255, 241, 80, 96, 1, 84,
      0, 91, 96, 1, 84, 80, 96, 67, 96, 1, 85, 96, 1, 84, 0>>

\* B: read its own key 1, store 9 there, CALL A back with the calldata word
\* 1, read its own key 1 again
Code_StorageChild ==
    <<96, 1, 96, 0, 82, 96, 1, 84, 80, 96, 9, 96, 1, 85, 96, 0, 96, 0, 96,
      32, 96, 0, 96, 0, 115, 16, 0, 0, 0, 0, 0, 0, 0, 0, 0, 0, 0, 0, 0, 0,
      0, 0, 0, 0, 0, 97, 255, 255, 241, 80, 96, 1, 84, 0>>

\* the calldata of test_calldataload
Calldata_Test ==
    <<18, 52, 86, 120, 144, 171, 205, 239, 18, 52, 86, 120, 144, 171, 205,
      239, 18, 52, 86, 120, 144, 171, 205, 239, 18, 52, 86, 120, 144, 171,
      205, 239>>

\* "0x2000000000000000000000000000000000000000" of the CALL test
SubAddress == [i \in 1..20 |-> IF i = 1 THEN 32 ELSE 0]

\* a second contract address, "0x3000000000000000000000000000000000000000"
OtherAddress == [i \in 1..20 |-> IF i = 1 THEN 48 ELSE 0]

\* Account { code: Rc::new(code), ..Default::default() }, as the CALL test
\* inserts it: the jumpdest set is left empty
InsertedAccount(code) == [DefaultAccount EXCEPT !.code = code]

\* a 9-byte PUSH9 immediate: bits 64..71 in hi, bits 0..7 in lo
Imm9(hi, lo) == <<hi, 0, 0, 0, 0, 0, 0, 0, lo>>

\* the 9-byte immediate 2^64 - 1
Imm9Max == <<0, 255, 255, 255, 255, 255, 255, 255, 255>>

\* PUSH9 imm, JUMP, then offset 11: JUMPDEST, 12: PUSH1, 13: 0x5B (immediate),
\* 14: STOP, 15: JUMPDEST, 16: STOP
Code_Jump(imm) == <<PUSH1 + 8>> \o imm \o <<JUMP, JUMPDEST, PUSH1, JUMPDEST,
                                            STOP, JUMPDEST, STOP>>

\* PUSH2 cond, PUSH9 imm, JUMPI, then offset 14: JUMPDEST, 15: PUSH1,
\* 16: 0x5B (immediate), 17: STOP, 18: JUMPDEST, 19: STOP
Code_Jumpi(cond, imm) ==
    <<PUSH1 + 1>> \o cond \o <<PUSH1 + 8>> \o imm
    \o <<JUMPI, JUMPDEST, PUSH1, JUMPDEST, STOP, JUMPDEST, STOP>>

\* CALL the sub-contract with the gas request imm, no argument range and
\* the return window (0, 0), then RETURNDATASIZE; the to word carries a
\* nonzero byte above its low 20 bytes
Code_CallGas(imm) ==
    <<PUSH1, 0, PUSH1, 0, PUSH1, 0, PUSH1, 0, PUSH1, 0, PUSH32, 1>>
    \o Zeros(11) \o SubAddress \o <<PUSH1 + 8>> \o imm
    \o <<CALL, RETURNDATASIZE, STOP>>

\* PUSH32 x, PUSH32 y, op, STOP: op finds y on top of the stack and x beneath
Code_Arith(x, y, op) == <<PUSH32>> \o x \o <<PUSH32>> \o y \o <<op, STOP>>

\* operand words: 0, 1, 3, 2^255, 2^256 - 1, 2^128 - 1 and two mixed ones
ArithWords ==
    {ZeroWord, WordFromNat(1), WordFromNat(3),
     [i \in 1..32 |-> IF i = 1 THEN 128 ELSE 0],
     [i \in 1..32 |-> 255],
     [i \in 1..32 |-> IF i <= 16 THEN 0 ELSE 255],
     [i \in 1..32 |-> (i * 37 + 11) % 256],
     [i \in 1..32 |-> IF i <= 20 THEN 0 ELSE (i * 91 + 5) % 256]}

\* the word whose bytes are 1, 2, ..., 32
CountingWord == [i \in 1..32 |-> i]

\* offset 0: a nonzero word stored at 0; offset 36: PUSH32 o; 69: PUSH32 v;
\* 102: PUSH32 o; 135: MSTORE; 136: MLOAD; 137: PUSH32 o2; 170: MLOAD;
\* 171: STOP
Code_StoreLoad(o, v, o2) ==
    <<PUSH32>> \o [i \in 1..32 |-> (i * 37 + 11) % 256]
    \o <<PUSH1, 0, MSTORE, PUSH32>> \o o \o <<PUSH32>> \o v
    \o <<PUSH32>> \o o \o <<MSTORE, MLOAD, PUSH32>> \o o2
    \o <<MLOAD, STOP>>

\* offsets 0, 1, 33, 70, 2^64 + 5 (taken as 5) and 2^63; values 0 and the
\* counting word; second offsets 40 and 200
StoreLoadCodes ==
    {Code_StoreLoad(o, v, o2) :
        o \in {ZeroWord, WordFromNat(1), WordFromNat(33), WordFromNat(70),
               [i \in 1..32 |-> IF i = 24 THEN 1 ELSE IF i = 32 THEN 5 ELSE 0],
               [i \in 1..32 |-> IF i = 25 THEN 128 ELSE 0]},
        v \in {ZeroWord, CountingWord},
        o2 \in {WordFromNat(40), WordFromNat(200)}}

\* store a nonzero word at 0, CALL the sub-contract with the return window
\* (0, 0), then offset 71: PUSH9 sz, PUSH9 ro, PUSH9 mo, 101: RETURNDATACOPY,
\* 102: STOP
Code_CopyBack(mo, ro, sz) ==
    <<PUSH32>> \o [i \in 1..32 |-> (i * 37 + 11) % 256]
    \o <<PUSH1, 0, MSTORE, PUSH1, 0, PUSH1, 0, PUSH1, 0, PUSH1, 0, PUSH1, 0,
         PUSH1 + 19>> \o SubAddress \o <<PUSH1 + 1, 19, 136, CALL, PUSH1 + 8>>
    \o sz \o <<PUSH1 + 8>> \o ro \o <<PUSH1 + 8>> \o mo
    \o <<RETURNDATACOPY, STOP>>

\* (return_offset, size) pairs against 32 bytes of return data: inside, at
\* the end, one byte too far, empty at and past the end, and 2^64 - 1
CopyRanges ==
    {<<Imm9(0, 0), Imm9(0, 0)>>, <<Imm9(0, 0), Imm9(0, 32)>>,
     <<Imm9(0, 5), Imm9(0, 8)>>, <<Imm9(0, 31), Imm9(0, 1)>>,
     <<Imm9(0, 31), Imm9(0, 2)>>, <<Imm9(0, 32), Imm9(0, 0)>>,
     <<Imm9(0, 33), Imm9(0, 0)>>, <<Imm9(0, 0), Imm9Max>>}

\* gas limits around the cost of the copy program
CopyGas == (MaxSmallGas + 20)..(2 * MaxSmallGas)

\* PUSH2 o1, MLOAD, PUSH2 o2, MLOAD, STOP
Code_MemGrow(o1, o2) ==
    <<PUSH1 + 1>> \o o1 \o <<MLOAD, PUSH1 + 1>> \o o2 \o <<MLOAD, STOP>>

\* the offsets 0, 512, 1025 and 8192 as PUSH2 immediates
GrowOffsets == {<<0, 0>>, <<2, 0>>, <<4, 1>>, <<32, 0>>}

\* store 0x42 at key 1, then the tail
Code_StoreThenFail(tail) == <<PUSH1, 66, PUSH1, 1, SSTORE>> \o tail

\* tails that end the run with Revert, InvalidOpcode, InvalidJump,
\* StackUnderflow and OutOfGas
FailTails ==
    {<<PUSH1, 0, PUSH1, 0, REVERT>>, <<12>>, <<PUSH1, 0, JUMP>>, <<ADD>>,
     Code_MemHuge}

\* PUSH9 imm, CALLDATALOAD, STOP
Code_Load(imm) == <<PUSH1 + 8>> \o imm \o <<CALLDATALOAD, STOP>>

\* k times PUSH1 1, then the single opcode op, then STOP
RECURSIVE PushOnes(_)
PushOnes(k) == IF k = 0 THEN <<>> ELSE <<PUSH1, 1>> \o PushOnes(k - 1)

Code_Op(k, op) == PushOnes(k) \o <<op, STOP>>

\* every opcode byte the match of step names, and one it does not (0x0C)
OpBytes ==
    {STOP, ADD, MUL, SUB, DIV, LT, GT, EQ, ISZERO, SHA3, CALLDATALOAD, MLOAD,
     MSTORE, POP, SLOAD, SSTORE, JUMP, JUMPI, JUMPDEST, PUSH1, PUSH32, DUP1,
     DUP16, SWAP1, SWAP16, CALL, RETURNDATASIZE, RETURNDATACOPY, RETURN,
     REVERT, 12}

SmallGas == 0..MaxSmallGas

\* gas limits that let a nested call run and leave the caller a few units
MidGas == (MaxSmallGas + 1)..(3 * MaxSmallGas)

AnyGas == SmallGas \cup {LargeGas}

NoAccounts == <<>>

Scenario(code, calldata, storage, extra, gas) ==
    [code |-> code, calldata |-> calldata, storage |-> storage,
     extra |-> extra, gas |-> gas]

Plain(code) == Scenario(code, <<>>, <<>>, NoAccounts, AnyGas)

\* the inputs of Machine::new, and the accounts inserted before run
Scenarios ==
    {Plain(c) : c \in {Code_AddReturn, Code_SloadSstore, Code_MloadMstore,
                        Code_Arithmetic, Code_JumpiIszero, Code_Sha3,
                        Code_OutOfGas, Code_InvalidJump, Code_InvalidOpcode,
                        Code_Revert, Code_CallPanic, Code_ReturnPartial,
                        Code_ReturnBeyond, Code_ReturnZero,
                        Code_RevertPartial, Code_Misc, Code_PushTruncated,
                        Code_MemHuge, <<>>}}
    \cup {Scenario(Code_SloadSstore, <<>>,
                   (WordFromNat(1) :> WordFromNat(7)), NoAccounts,
                   {LargeGas})}
    \cup {Scenario(Code_StorageRoot, <<>>, st,
                   (OtherAddress :> InsertedAccount(Code_StorageChild)),
                   {LargeGas}) :
            st \in {<<>>, (WordFromNat(2) :> WordFromNat(5))}}
    \cup {Scenario(Code_StorageRoot, <<>>, <<>>, NoAccounts, {LargeGas})}
    \cup {Scenario(Code_Calldataload, cd, <<>>, NoAccounts, AnyGas) :
            cd \in {<<>>, Calldata_Test}}
    \cup {Scenario(c, <<>>, <<>>,
                   (SubAddress :> InsertedAccount(Code_CallSub)), AnyGas) :
            c \in {Code_CallMain, Code_CallWindow, Code_ReturnDataCopy}}
    \cup {Scenario(Code_Recursion, <<>>, <<>>,
                   (ZeroAddress :> InsertedAccount(Code_Recursion)),
                   {0, LargeGas})}
    \cup {Scenario(Code_StackLoop, <<>>, <<>>, NoAccounts, {StackLoopGas})}
    \cup {Scenario(Code_NestedRootA, <<>>, <<>>,
                   (OtherAddress :> InsertedAccount(Code_NestedChildA)),
                   AnyGas)}
    \cup {Scenario(Code_NestedRootB, <<>>, <<>>,
                   (OtherAddress :> InsertedAccount(child)), AnyGas) :
            child \in {Code_NestedChildB, Code_Revert, Code_InvalidOpcode,
                       Code_InvalidJump, Code_Op(0, ADD),
                       Code_Op(2, SSTORE), Code_JumpiIszero}}
    \cup {Scenario(Code_RevertAfterCall, <<>>, <<>>,
                   (OtherAddress :> InsertedAccount(child)),
                   MidGas \cup {LargeGas}) :
            child \in {Code_NestedChildB, Code_CallSub}}
    \cup {Scenario(Code_CallGas(imm), <<>>, <<>>,
                   (SubAddress :> InsertedAccount(Code_CallSub)),
                   MidGas \cup {LargeGas}) :
            imm \in {Imm9(1, 0), Imm9Max, Imm9(0, 50)}}
    \cup {Scenario(Code_CallGas(Imm9(1, 0)), <<>>, <<>>,
                   (SubAddress :> InsertedAccount(child)), AnyGas) :
            child \in {Code_AddReturn, Code_Op(0, STOP), <<>>,
                       Code_ReturnZero}}
    \cup {Scenario(Code_Arith(x, y, op), <<>>, <<>>, NoAccounts, {LargeGas}) :
            x \in ArithWords, y \in ArithWords,
            op \in {ADD, MUL, SUB, DIV, LT, GT, EQ}}
    \cup {Scenario(c, <<>>, <<>>, NoAccounts, MidGas \cup {LargeGas}) :
            c \in StoreLoadCodes}
    \cup {Scenario(Code_CopyBack(mo, r[1], r[2]), <<>>, <<>>,
                   (SubAddress :> InsertedAccount(Code_AddReturn)),
                   CopyGas \cup {LargeGas}) :
            mo \in {Imm9(0, 0), Imm9(0, 5), Imm9(0, 40), Imm9Max},
            r \in CopyRanges}
    \cup {Scenario(Code_MemGrow(o1, o2), <<>>, <<>>, NoAccounts,
                   MidGas \cup {LargeGas}) :
            o1 \in GrowOffsets, o2 \in GrowOffsets}
    \cup {Scenario(Code_StoreThenFail(tail), <<>>,
                   (WordFromNat(1) :> WordFromNat(7)), NoAccounts,
                   {LargeGas}) :
            tail \in FailTails}
    \cup {Scenario(Code_StoreThenFail(Code_CallGas(Imm9(1, 0))), <<>>, <<>>,
                   (SubAddress
                      :> InsertedAccount(Code_StoreThenFail(tail))),
                   {LargeGas}) :
            tail \in FailTails}
    \cup {Scenario(Code_Jump(imm), <<>>, <<>>, NoAccounts, AnyGas) :
            imm \in {Imm9(hi, lo) : hi \in {0, 1},
                                    lo \in {0, 11, 12, 13, 14, 15, 17, 200}}
                    \cup {Imm9Max}}
    \cup {Scenario(Code_Jumpi(cond, imm), <<>>, <<>>, NoAccounts,
                   {9, 16, LargeGas}) :
            cond \in {<<0, 0>>, <<0, 1>>, <<1, 0>>},
            imm \in {Imm9(hi, lo) : hi \in {0, 1},
                                    lo \in {0, 14, 16, 17, 18, 20}}
                    \cup {Imm9Max}}
    \cup {Scenario(Code_Load(imm), cd, <<>>, NoAccounts, {LargeGas}) :
            imm \in {Imm9(hi, lo) : hi \in {0, 1},
                                    lo \in {0, 1, 3, 8, 31, 32, 33}}
                    \cup {Imm9Max},
            cd \in {<<>>, <<1, 2, 3>>, Calldata_Test,
                    Calldata_Test \o <<9>>}}
    \cup {Scenario(Code_Op(k, op), <<>>, <<>>, NoAccounts, {LargeGas}) :
            k \in 0..MaxPrefix, op \in OpBytes}

----------------------------------------------------------------------------
(* Machine::new, lines 84-119, followed by the inserts of the scenario *)

Init ==
    \E s \in Scenarios :
    \E gas_limit \in s.gas :
      LET jumpdests == analyze_jumpdests(s.code)
          root == [balance |-> ZeroWord, code |-> s.code,
                   jumpdests |-> jumpdests, storage |-> s.storage,
                   nonce |-> 0]
          initial_frame ==
              [pc |-> 0, stack |-> <<>>, memory |-> <<>>,
               memory_size_words |-> 0, calldata |-> s.calldata,
               gas |-> gas_limit, code |-> s.code, jumpdests |-> jumpdests,
               caller |-> ZeroAddress, callee |-> RootAddress]
          m0 == [accounts |-> s.extra @@ (RootAddress :> root),
                 call_stack |-> <<initial_frame>>,
                 return_data |-> <<>>,
                 last_call_return |-> <<0, 0>>,
                 result |-> Running,
                 ended_frame |-> <<>>,
                 created |-> <<>>,
                 stored |-> [p \in {<<RootAddress, k>> :
                                      k \in DOMAIN s.storage} |->
                               s.storage[p[2]]]]
      IN  /\ accounts = m0.accounts
          /\ call_stack = m0.call_stack
          /\ return_data = m0.return_data
          /\ last_call_return = m0.last_call_return
          /\ result = m0.result
          /\ ended_frame = m0.ended_frame
          /\ created = <<CreationRecord(initial_frame, m0, 0, 0)>>
          /\ stored = m0.stored

----------------------------------------------------------------------------
(* Machine::run and Machine::step, one action per arm *)

Apply(m) ==
    /\ accounts' = m.accounts
    /\ call_stack' = m.call_stack
    /\ return_data' = m.return_data
    /\ last_call_return' = m.last_call_return
    /\ result' = m.result
    /\ ended_frame' = m.ended_frame
    /\ created' = m.created
    /\ stored' = m.stored

\* run is still in its loop and the loop calls step
CanStep == result = Running /\ call_stack # <<>>

Top == call_stack[Len(call_stack)]

\* frame.pc >= frame.code.len(), line 170
AtEnd == Top.pc >= Len(Top.code)

\* the opcode read_opcode returns
Opcode == Top.code[Top.pc + 1]

\* step reaches the match with an opcode of ops: the base charge is paid
Executes(ops) ==
    /\ CanStep
    /\ ~AtEnd
    /\ Opcode \in ops
    /\ Top.gas >= get_opcode_cost(Opcode)

\* the machine at the match: opcode read and base cost deducted
AtMatch == WithTop(Machine, Charged(Top))

\* run, lines 138-140: the call stack is empty
RunReturn ==
    /\ result = Running
    /\ call_stack = <<>>
    /\ Apply([Machine EXCEPT !.result = Outcome("Success", return_data),
                             !.return_data = <<>>])

\* step, lines 170-173: the pc is past the end of the code
StepEndOfCode ==
    /\ CanStep
    /\ AtEnd
    /\ Apply(handle_frame_end(Machine, TRUE, 0, 0))

\* step, lines 178-181: the base cost exceeds the frame's gas
StepOutOfGas ==
    /\ CanStep
    /\ ~AtEnd
    /\ Top.gas < get_opcode_cost(Opcode)
    /\ Apply(Fail(Machine, [Top EXCEPT !.pc = Top.pc + 1, !.gas = 0],
                  "OutOfGas"))

StepSTOP ==
    /\ Executes({STOP})
    /\ Apply(handle_frame_end(AtMatch, TRUE, 0, 0))

StepRETURN == Executes({RETURN}) /\ Apply(op_RETURN(AtMatch, Charged(Top), TRUE))

StepREVERT == Executes({REVERT}) /\ Apply(op_RETURN(AtMatch, Charged(Top), FALSE))

StepADD == Executes({ADD}) /\ Apply(op_Binary(AtMatch, Charged(Top), ADD))

StepMUL == Executes({MUL}) /\ Apply(op_Binary(AtMatch, Charged(Top), MUL))

StepSUB == Executes({SUB}) /\ Apply(op_Binary(AtMatch, Charged(Top), SUB))

StepDIV == Executes({DIV}) /\ Apply(op_Binary(AtMatch, Charged(Top), DIV))

StepLT == Executes({LT}) /\ Apply(op_Binary(AtMatch, Charged(Top), LT))

StepGT == Executes({GT}) /\ Apply(op_Binary(AtMatch, Charged(Top), GT))

StepEQ == Executes({EQ}) /\ Apply(op_Binary(AtMatch, Charged(Top), EQ))

StepISZERO == Executes({ISZERO}) /\ Apply(op_ISZERO(AtMatch, Charged(Top)))

StepSHA3 == Executes({SHA3}) /\ Apply(op_SHA3(AtMatch, Charged(Top)))

StepCALLDATALOAD ==
    Executes({CALLDATALOAD}) /\ Apply(op_CALLDATALOAD(AtMatch, Charged(Top)))

StepMLOAD == Executes({MLOAD}) /\ Apply(op_MLOAD(AtMatch, Charged(Top)))

StepMSTORE == Executes({MSTORE}) /\ Apply(op_MSTORE(AtMatch, Charged(Top)))

StepSLOAD == Executes({SLOAD}) /\ Apply(op_SLOAD(AtMatch, Charged(Top)))

StepSSTORE == Executes({SSTORE}) /\ Apply(op_SSTORE(AtMatch, Charged(Top)))

StepJUMP == Executes({JUMP}) /\ Apply(op_JUMP(AtMatch, Charged(Top)))

StepJUMPI == Executes({JUMPI}) /\ Apply(op_JUMPI(AtMatch, Charged(Top)))

StepJUMPDEST == Executes({JUMPDEST}) /\ Apply(op_JUMPDEST(AtMatch, Charged(Top)))

StepPUSH ==
    /\ Executes(PUSH1..PUSH32)
    /\ Apply(op_PUSH(AtMatch, Charged(Top), Opcode))

StepPOP == Executes({POP}) /\ Apply(op_POP(AtMatch, Charged(Top)))

StepDUP ==
    /\ Executes(DUP1..DUP16)
    /\ Apply(op_DUP(AtMatch, Charged(Top), Opcode))

StepSWAP ==
    /\ Executes(SWAP1..SWAP16)
    /\ Apply(op_SWAP(AtMatch, Charged(Top), Opcode))

\* the model follows the call stack up to MaxDepth frames
StepCALL ==
    /\ Executes({CALL})
    /\ Len(call_stack) < MaxDepth
    /\ Apply(op_CALL(AtMatch, Charged(Top)))

StepRETURNDATASIZE ==
    Executes({RETURNDATASIZE}) /\ Apply(op_RETURNDATASIZE(AtMatch, Charged(Top)))

StepRETURNDATACOPY ==
    Executes({RETURNDATACOPY}) /\ Apply(op_RETURNDATACOPY(AtMatch, Charged(Top)))

\* the opcodes the match names
KnownOpcodes ==
    {STOP, RETURN, REVERT, ADD, MUL, SUB, DIV, LT, GT, EQ, ISZERO, SHA3,
     CALLDATALOAD, MLOAD, MSTORE, SLOAD, SSTORE, JUMP, JUMPI, JUMPDEST, POP,
     CALL, RETURNDATASIZE, RETURNDATACOPY}
    \cup (PUSH1..PUSH32) \cup (DUP1..DUP16) \cup (SWAP1..SWAP16)

StepInvalid ==
    /\ Executes((0..255) \ KnownOpcodes)
    /\ Apply(op_Invalid(AtMatch, Charged(Top)))

Next ==
    \/ RunReturn
    \/ StepEndOfCode
    \/ StepOutOfGas
    \/ StepSTOP
    \/ StepRETURN
    \/ StepREVERT
    \/ StepADD
    \/ StepMUL
    \/ StepSUB
    \/ StepDIV
    \/ StepLT
    \/ StepGT
    \/ StepEQ
    \/ StepISZERO
    \/ StepSHA3
    \/ StepCALLDATALOAD
    \/ StepMLOAD
    \/ StepMSTORE
    \/ StepSLOAD
    \/ StepSSTORE
    \/ StepJUMP
    \/ StepJUMPI
    \/ StepJUMPDEST
    \/ StepPUSH
    \/ StepPOP
    \/ StepDUP
    \/ StepSWAP
    \/ StepCALL
    \/ StepRETURNDATASIZE
    \/ StepRETURNDATACOPY
    \/ StepInvalid

Spec == Init /\ [][Next]_vars

----------------------------------------------------------------------------
(* The claims.  A step property [][A]_vars constrains every step of run;    *)
(* its antecedent names the arm the step executes, and Next has exactly one *)
(* enabled arm in each running state.                                       *)

\* the k-th word the arm about to execute will pop
Operand(k) == Popped(Top, k)

\* the word w, taken with all its 256 bits, is a member of the set of offsets
InSetAsWord(w, offsets) == \E d \in offsets : w = WordFromNat(d)

\* C1: run returns exactly one of Success, Revert, OutOfGas, InvalidOpcode,
\* InvalidJump or StackUnderflow, and no step aborts in any other way (every
\* slice an opcode takes lies inside the buffer it indexes).
C1_ClosedResultKinds ==
    result.kind \in {"running", "Success", "Revert", "OutOfGas",
                     "InvalidOpcode", "InvalidJump", "StackUnderflow"}

\* C2: run returns after finitely many steps and the call stack cannot grow
\* without bound.  step is deterministic and reads only the top frame, the
\* accounts, the return data and the pending window; while a frame is on the
\* stack the frames below it are not touched.  So if a frame is created in
\* exactly the state (frame, accounts, return data, window) in which a frame
\* still below it on the stack was created, the steps between the two
\* creations repeat for ever, one level deeper each time.  Termination
\* therefore requires that no two frames on the call stack were created in
\* the same state.
C2_NoRecurringCall ==
    \A i \in 1..Len(created) : \A j \in 1..Len(created) :
        i < j => created[i] # created[j]

\* C3: in every reachable state the operand stack of every frame on the call
\* stack holds at most 1024 words.
C3_StackAtMost1024 ==
    \A i \in 1..Len(call_stack) : Len(call_stack[i].stack) <= StackLimit

\* C4: in every step, the gas of every frame that is on the call stack before
\* and after the step does not increase, except for the frame whose direct
\* child ends in the step: its gas grows by exactly the gas the child had
\* left when it ended (which is no more than the child had before the step).
C4_GasMonotone ==
    [][\A i \in 1..Len(call_stack') :
          i <= Len(call_stack) =>
            IF Len(call_stack') = Len(call_stack) - 1 /\ i = Len(call_stack')
            THEN /\ call_stack'[i].gas
                      = call_stack[i].gas + ended_frame'[1].gas
                 /\ ended_frame'[1].gas <= call_stack[Len(call_stack)].gas
            ELSE call_stack'[i].gas <= call_stack[i].gas]_vars

\* C4 happens: a child frame has just ended with gas left, and the caller
\* stands right behind its CALL with the status word pushed
C4_RefundSeen ==
    /\ result = Running
    /\ call_stack # <<>>
    /\ ended_frame # <<>>
    /\ ended_frame[1].gas > 0
    /\ Top.pc > 0
    /\ Top.code[Top.pc] = CALL
    /\ Top.stack # <<>>
    /\ Top.gas >= ended_frame[1].gas

\* C5: when a child frame ends and a caller remains, the return data is
\* written into the caller's memory at the ret_offset, truncated to the
\* ret_size, of the CALL that created the ended child: exactly
\* min(len(return_data), ret_size) bytes at ret_offset, and no other byte of
\* the caller's memory changes.
C5_CopyBackWindow ==
    [][(Len(call_stack') = Len(call_stack) - 1 /\ call_stack' # <<>>) =>
          LET n      == Len(call_stack)
              window == created[n]
              caller == call_stack[n - 1]
              k      == Min(Len(return_data'), window.ret_size)
          IN  call_stack'[n - 1].memory
                = IF k > 0
                  THEN copy_from_slice(
                         memory_resize(caller.memory, window.ret_offset + k),
                         window.ret_offset, SubSeq(return_data', 1, k))
                  ELSE caller.memory]_vars

\* C6: in every reachable state and for every frame, memory_size_words * 32
\* is at least the length of the frame's memory buffer.
C6_MemoryCharged ==
    \A i \in 1..Len(call_stack) :
        call_stack[i].memory_size_words * 32 >= Len(call_stack[i].memory)

\* C7: when a frame ends via RETURN or REVERT with operands (offset, size)
\* and size > 0, the return-data buffer becomes the bytes of the ended
\* frame's memory at [offset, min(offset + size, len(memory))); with
\* size = 0, and for STOP and falling off the end of the code, it becomes
\* empty.
C7_ReturnDataClipped ==
    [][(CanStep /\ Len(call_stack') = Len(call_stack) - 1) =>
          IF ~AtEnd /\ Opcode \in {RETURN, REVERT}
          THEN LET offset == as_limb0(Operand(1))
                   size   == as_limb0(Operand(2))
                   last   == Min(offset + size, Len(Top.memory))
               IN  return_data' = IF size > 0
                                  THEN SubSeq(Top.memory, offset + 1, last)
                                  ELSE <<>>
          ELSE return_data' = <<>>]_vars

\* C8: for every 256-bit word dest popped by JUMP: if dest, taken as the
\* full word, is not in the frame's jumpdest set the step fails with
\* InvalidJump; only when it is in the set does pc become dest.
C8_JumpFullWord ==
    [][(Executes({JUMP}) /\ Top.stack # <<>>) =>
          LET n == Len(call_stack)
          IN  IF InSetAsWord(Operand(1), Top.jumpdests)
              THEN /\ result' = Running
                   /\ WordFromNat(call_stack'[n].pc) = Operand(1)
              ELSE /\ result' = Outcome("InvalidJump", <<>>)
                   /\ call_stack'[n].pc = Top.pc + 1]_vars

\* C9: JUMPI pops dest then cond and checks dest against the jumpdest set
\* whatever cond is: dest not in the set fails with InvalidJump even when
\* cond = 0; dest in the set and cond = 0 leaves pc at the byte after the
\* JUMPI; dest in the set and cond # 0 makes pc dest.
C9_JumpiChecksDest ==
    [][(Executes({JUMPI}) /\ Len(Top.stack) >= 2) =>
          LET n == Len(call_stack)
          IN  IF ~InSetAsWord(Operand(1), Top.jumpdests)
              THEN result' = Outcome("InvalidJump", <<>>)
              ELSE /\ result' = Running
                   /\ IF is_zero(Operand(2))
                      THEN call_stack'[n].pc = Top.pc + 1
                      ELSE WordFromNat(call_stack'[n].pc) = Operand(1)]_vars

\* C10: for every 256-bit word offset popped by CALLDATALOAD: if offset is at
\* or past the length of the calldata (offsets of 2^64 or more included) the
\* word pushed is 0; otherwise it is the 32 bytes calldata[offset ..
\* offset + 32), big-endian, with the bytes past the end read as zero.
C10_CalldataloadWindow ==
    [][(Executes({CALLDATALOAD}) /\ Top.stack # <<>>) =>
          LET n      == Len(call_stack)
              cd     == Top.calldata
              pushed == call_stack'[n].stack[Len(Top.stack)]
          IN  IF word_lt(Operand(1), WordFromNat(Len(cd)))
              THEN LET o == as_limb0(Operand(1))
                   IN  pushed = [i \in 1..32 |->
                                   IF o + i <= Len(cd) THEN cd[o + i] ELSE 0]
              ELSE pushed = ZeroWord]_vars

\* C11: an SLOAD of key k executed by a frame whose callee is A pushes the
\* word last stored at (A, k), whichever frame stored it (the same frame, a
\* caller, or a frame nested in between), and pushes 0 when nothing was ever
\* stored at (A, k).  The words stored are those of the SSTOREs executed so
\* far and, for the outermost callee, those of the storage the machine was
\* constructed with.
C11_SloadSeesLastSstore ==
    [][(Executes({SLOAD}) /\ Top.stack # <<>>) =>
          LET n      == Len(call_stack)
              at     == <<Top.callee, Operand(1)>>
              pushed == call_stack'[n].stack[Len(Top.stack)]
          IN  /\ Len(call_stack'[n].stack) = Len(Top.stack)
              /\ pushed = IF at \in DOMAIN stored THEN stored[at]
                          ELSE ZeroWord]_vars

\* C11 happens: a frame nested two CALLs below the frame that stored 0x42 at
\* key 1 of the same callee has just read key 1 and got 0x42
C11_NestedSloadSeen ==
    /\ result = Running
    /\ Len(call_stack) = 3
    /\ Top.callee = call_stack[1].callee
    /\ call_stack[2].callee # Top.callee
    /\ Top.pc > 0
    /\ Top.code[Top.pc] = SLOAD
    /\ Top.stack = <<WordFromNat(66)>>
    /\ <<Top.callee, WordFromNat(1)>> \in DOMAIN stored

\* C12: when a frame at any nesting depth executes REVERT with operands
\* (offset, size) whose range lies inside its memory buffer, run returns
\* Revert(payload) with payload = memory[offset .. offset + size) of that
\* frame, and no step is taken once run has returned Revert.
C12_RevertReturnsPayload ==
    [][/\ (Executes({REVERT}) /\ Len(Top.stack) >= 2) =>
            LET offset == as_limb0(Operand(1))
                size   == as_limb0(Operand(2))
            IN  (/\ Operand(1) = WordFromNat(offset)
                 /\ Operand(2) = WordFromNat(size)
                 /\ offset + size <= Len(Top.memory))
                => result' = Outcome("Revert",
                                     SubSeq(Top.memory, offset + 1,
                                            offset + size))
       /\ result.kind = "Revert" => UNCHANGED vars]_vars

\* the number of words the arm of an opcode pops, or for DUPn and SWAPn
\* needs on the stack
WordsNeeded(op) ==
    IF op \in {RETURN, REVERT, ADD, MUL, SUB, DIV, LT, GT, EQ, SHA3, MSTORE,
               SSTORE, JUMPI} THEN 2
    ELSE IF op \in {ISZERO, CALLDATALOAD, MLOAD, SLOAD, JUMP, POP} THEN 1
    ELSE IF op = CALL THEN 7
    ELSE IF op = RETURNDATACOPY THEN 3
    ELSE IF op >= DUP1 /\ op <= DUP16 THEN op - DUP1 + 1
    ELSE IF op >= SWAP1 /\ op <= SWAP16 THEN op - SWAP1 + 2
    ELSE 0

FailureKinds == {"OutOfGas", "InvalidJump", "InvalidOpcode", "StackUnderflow"}

\* C13: when the top frame, at any nesting depth, hits OutOfGas (gas below
\* the base cost), InvalidOpcode (a byte the match does not name),
\* StackUnderflow (fewer words than the opcode needs) or InvalidJump (JUMP or
\* JUMPI to a destination outside the jumpdest set), run returns exactly that
\* kind in the same step.  A step in which run returns a failure pops no
\* frame and leaves the frames of all callers untouched (no status word is
\* pushed, no gas handed back), and no step follows a failure.
C13_FailureIsFatal ==
    [][/\ (CanStep /\ ~AtEnd) =>
            IF Top.gas < get_opcode_cost(Opcode)
            THEN result' = Outcome("OutOfGas", <<>>)
            ELSE IF Opcode \notin KnownOpcodes
            THEN result' = Outcome("InvalidOpcode", <<>>)
            ELSE IF Len(Top.stack) < WordsNeeded(Opcode)
            THEN result' = Outcome("StackUnderflow", <<>>)
            ELSE IF /\ Opcode \in {JUMP, JUMPI}
                    /\ as_limb0(Operand(1)) \notin Top.jumpdests
            THEN result' = Outcome("InvalidJump", <<>>)
            ELSE TRUE
       /\ (result = Running /\ result'.kind \in FailureKinds) =>
            /\ result'.data = <<>>
            /\ Len(call_stack') = Len(call_stack)
            /\ \A i \in 1..(Len(call_stack) - 1) :
                   call_stack'[i] = call_stack[i]
            /\ accounts' = accounts
            /\ return_data' = return_data
       /\ result.kind \in FailureKinds => UNCHANGED vars]_vars

\* C13 happens: run has returned a failure detected in a nested frame while
\* the caller below still holds gas and has no status word on its stack
C13_NestedFailureSeen ==
    /\ result.kind \in FailureKinds
    /\ Len(call_stack) >= 2
    /\ call_stack[1].gas > 0
    /\ call_stack[1].stack = <<>>
    /\ call_stack[1].code[call_stack[1].pc] = CALL

\* the base costs as the claim C14 lists them
ListedCost(op) ==
    IF op \in {STOP, JUMPDEST, CALL, RETURN, REVERT, RETURNDATASIZE,
               RETURNDATACOPY, CALLDATALOAD} THEN 0
    ELSE IF op \in {ADD, SUB, POP, LT, GT, EQ, ISZERO, MLOAD, MSTORE} THEN 3
    ELSE IF op >= PUSH1 /\ op <= SWAP16 THEN 3
    ELSE IF op \in {MUL, DIV} THEN 5
    ELSE IF op = JUMP THEN 8
    ELSE IF op = JUMPI THEN 10
    ELSE IF op = SHA3 THEN 30
    ELSE IF op = SLOAD THEN 800
    ELSE 20000

\* the opcodes whose arm can take gas beyond the base cost (memory expansion,
\* gas forwarded to a child)
ChargingOpcodes == {RETURN, REVERT, SHA3, MLOAD, MSTORE, CALL, RETURNDATACOPY}

\* C14: at each step that reads one of the listed opcodes, its listed base
\* cost is compared with the top frame's gas before any effect.  If the gas
\* is below the cost, the frame's gas becomes 0, run returns OutOfGas and the
\* frame's stack and memory and the accounts are as before the step.
\* Otherwise the gas is reduced by exactly the cost before the arm runs: the
\* frame is left with gas - cost when the arm takes no further gas (also when
\* it ends the frame or fails on the stack), and with no more than gas - cost
\* when the arm charges memory expansion or forwards gas.
C14_BaseCostFirst ==
    [][(CanStep /\ ~AtEnd /\ Opcode \in KnownOpcodes) =>
          LET n     == Len(call_stack)
              cost  == ListedCost(Opcode)
              after == IF Len(call_stack') < n THEN ended_frame'[1]
                       ELSE call_stack'[n]
          IN  IF Top.gas < cost
              THEN /\ result' = Outcome("OutOfGas", <<>>)
                   /\ Len(call_stack') = n
                   /\ after.gas = 0
                   /\ after.stack = Top.stack
                   /\ after.memory = Top.memory
                   /\ after.memory_size_words = Top.memory_size_words
                   /\ accounts' = accounts
              ELSE IF \/ Opcode \notin ChargingOpcodes
                      \/ Len(Top.stack) < WordsNeeded(Opcode)
              THEN after.gas = Top.gas - cost
              ELSE after.gas <= Top.gas - cost]_vars

\* C14 happens: an SSTORE with both operands on the stack was refused for
\* lack of gas; the operands are still there and the gas is 0
C14_BaseChargeRefused ==
    /\ result = Outcome("OutOfGas", <<>>)
    /\ call_stack # <<>>
    /\ Top.pc > 0
    /\ Top.code[Top.pc] = SSTORE
    /\ Len(Top.stack) = 2
    /\ Top.gas = 0

\* C15: when CALL pushes a child frame, with g the caller's gas after the two
\* memory-expansion charges and r the popped gas_limit word: the child
\* starts with gas min(g - floor(g / 64), r), where an r above 2^64 - 1
\* counts as g; the caller is left with g minus that amount; and the child
\* starts with pc = 0, empty stack, empty memory, memory_size_words = 0,
\* caller = the calling frame's callee, callee = the low 20 bytes of the
\* popped to word.
C15_CallForwardsGas ==
    [][(/\ Executes({CALL})
        /\ Len(Top.stack) >= 7
        /\ Len(call_stack') = Len(call_stack) + 1) =>
          LET n     == Len(call_stack)
              r     == Operand(1)
              ch1   == charge_memory_expansion_gas(
                         Top, as_limb0(Operand(4)), as_limb0(Operand(5)))
              ch2   == charge_memory_expansion_gas(
                         ch1.frame, as_limb0(Operand(6)),
                         as_limb0(Operand(7)))
              g     == ch2.frame.gas
              most  == g - (g \div 64)
              sent  == IF word_lt(r, WordFromNat(most)) THEN as_limb0(r)
                       ELSE most
              child == call_stack'[n + 1]
          IN  /\ child.gas = sent
              /\ call_stack'[n].gas = g - sent
              /\ child.pc = 0
              /\ child.stack = <<>>
              /\ child.memory = <<>>
              /\ child.memory_size_words = 0
              /\ child.caller = Top.callee
              /\ child.callee = SubSeq(Operand(2), 13, 32)]_vars

\* C15 happens: a CALL asking for more than 2^64 - 1 gas has just pushed a
\* child; the caller had between 64 and 127 gas, kept 1 and sent the rest
C15_CallKeepsOne64th ==
    /\ result = Running
    /\ Len(call_stack) = 2
    /\ Top.pc = 0
    /\ Top.stack = <<>>
    /\ call_stack[1].pc > 9
    /\ call_stack[1].code[call_stack[1].pc] = CALL
    /\ call_stack[1].code[call_stack[1].pc - 9] = 1
    /\ call_stack[1].gas = 1
    /\ Top.gas >= 63
    /\ Top.callee = SubAddress

\* C16: when a child frame ends successfully the caller gets the word 1 on
\* top of its stack, and the return-data buffer then holds n bytes if the
\* child ended by RETURN of n bytes that lie inside its memory buffer, and
\* none if it ended by STOP or by running off the end of its code; the
\* buffer keeps its length through every step that does not end a frame, and
\* RETURNDATASIZE pushes that length.  So a RETURNDATASIZE the caller
\* executes before a further CALL has ended pushes n (or 0), whatever
\* ret_size the caller passed.
C16_ReturnDataSizeAfterCall ==
    [][/\ (/\ CanStep
           /\ AtEnd \/ Opcode \in {STOP, RETURN}
           /\ Len(call_stack') = Len(call_stack) - 1
           /\ call_stack' # <<>>) =>
            LET n      == Len(call_stack)
                caller == call_stack'[n - 1]
            IN  /\ caller.stack
                     = Append(call_stack[n - 1].stack, WordFromNat(1))
                /\ IF AtEnd \/ Opcode = STOP
                   THEN Len(return_data') = 0
                   ELSE as_limb0(Operand(1)) + as_limb0(Operand(2))
                            <= Len(Top.memory)
                        => Len(return_data') = as_limb0(Operand(2))
       /\ (CanStep /\ Len(call_stack') >= Len(call_stack)) =>
            return_data' = return_data
       /\ Executes({RETURNDATASIZE}) =>
            call_stack'[Len(call_stack)].stack
              = Append(Top.stack, WordFromNat(Len(return_data)))]_vars

\* C16 happens: the caller passed ret_size = 0, its child returned 32 bytes,
\* and the caller's RETURNDATASIZE has pushed 32 on top of the status word 1
C16_SizeSeenWithEmptyWindow ==
    /\ result = Running
    /\ Len(call_stack) = 1
    /\ last_call_return = <<0, 0>>
    /\ Top.pc > 1
    /\ Top.code[Top.pc] = RETURNDATASIZE
    /\ Top.code[Top.pc - 1] = CALL
    /\ Top.stack = <<WordFromNat(1), WordFromNat(32)>>
    /\ Top.memory = <<>>

----------------------------------------------------------------------------
(* Natural numbers as big-endian byte strings of any length, with exact     *)
(* sum and product: the arithmetic the results of C17 are stated in.        *)

\* x left-padded with zero bytes to n bytes
NatPad(x, n) == Zeros(n - Len(x)) \o x

\* the sum of two equally long strings and a carry-in, as [sum, carry],
\* by halves: the low half first, its carry then goes into the high half
RECURSIVE NatAddCarry(_, _, _)
NatAddCarry(x, y, cin) ==
    IF Len(x) = 1
    THEN [sum |-> <<(x[1] + y[1] + cin) % 256>>,
          carry |-> (x[1] + y[1] + cin) \div 256]
    ELSE LET h  == Len(x) \div 2
             lo == NatAddCarry(SubSeq(x, h + 1, Len(x)),
                               SubSeq(y, h + 1, Len(y)), cin)
         IN  IF lo.carry = 0
             THEN LET hi == NatAddCarry(SubSeq(x, 1, h), SubSeq(y, 1, h), 0)
                  IN  [sum |-> hi.sum \o lo.sum, carry |-> hi.carry]
             ELSE LET hi == NatAddCarry(SubSeq(x, 1, h), SubSeq(y, 1, h), 1)
                  IN  [sum |-> hi.sum \o lo.sum, carry |-> hi.carry]

\* x + y, one byte longer than the longer of the two
NatAdd(x, y) ==
    LET n == IF Len(x) > Len(y) THEN Len(x) ELSE Len(y)
        s == NatAddCarry(NatPad(x, n), NatPad(y, n), 0)
    IN  <<s.carry>> \o s.sum

\* x * d for one byte d: the low bytes of the byte products, plus their high
\* bytes one place up
NatMulByte(x, d) ==
    NatAdd([i \in 1..Len(x) |-> (x[i] * d) % 256],
           [i \in 1..Len(x) |-> (x[i] * d) \div 256] \o <<0>>)

\* x * y, by halves of y
RECURSIVE NatMul(_, _)
NatMul(x, y) ==
    IF Len(y) = 1 THEN NatMulByte(x, y[1])
    ELSE LET h  == Len(y) \div 2
             hi == NatMul(x, SubSeq(y, 1, h))
             lo == NatMul(x, SubSeq(y, h + 1, Len(y)))
         IN  IF Len(hi) > 0 /\ Len(lo) > 0
             THEN NatAdd(hi \o Zeros(Len(y) - h), lo)
             ELSE <<>>

\* x < y
NatLess(x, y) ==
    LET n == IF Len(x) > Len(y) THEN Len(x) ELSE Len(y)
        u == NatPad(x, n)
        v == NatPad(y, n)
    IN  \E i \in 1..n : u[i] < v[i] /\ \A k \in 1..(i - 1) : u[k] = v[k]

\* x mod 2^256, as a word
NatLow(x) == SubSeq(x, Len(x) - 31, Len(x))

\* r is the result the claim C17 gives for a OP b
ArithResult(op, a, b, r) ==
    IF op = ADD THEN r = NatLow(NatAdd(a, b))
    ELSE IF op = MUL THEN r = NatLow(NatMul(a, b))
    ELSE IF op = SUB THEN NatLow(NatAdd(r, b)) = a
    ELSE IF op = DIV
    THEN IF is_zero(b) THEN r = ZeroWord
         ELSE /\ ~NatLess(a, NatMul(r, b))
              /\ NatLess(a, NatAdd(NatMul(r, b), b))
    ELSE IF op = LT THEN r = (IF NatLess(a, b) THEN WordFromNat(1) ELSE ZeroWord)
    ELSE IF op = GT THEN r = (IF NatLess(b, a) THEN WordFromNat(1) ELSE ZeroWord)
    ELSE r = (IF a = b THEN WordFromNat(1) ELSE ZeroWord)

\* C17: with b the word on top of the stack and a the word beneath it, SUB
\* pushes (a - b) mod 2^256, DIV pushes floor(a / b) and 0 when b = 0, LT,
\* GT and EQ push 1 exactly when a < b, a > b, a = b (unsigned) and 0
\* otherwise, ADD pushes (a + b) mod 2^256 and MUL pushes (a * b) mod 2^256;
\* each pops exactly the two operands and pushes exactly one result.
C17_ArithmeticResults ==
    [][(Executes({ADD, MUL, SUB, DIV, LT, GT, EQ}) /\ Len(Top.stack) >= 2) =>
          LET n     == Len(call_stack)
              k     == Len(Top.stack)
              after == call_stack'[n].stack
          IN  /\ result' = Running
              /\ Len(after) = k - 1
              /\ SubSeq(after, 1, k - 2) = SubSeq(Top.stack, 1, k - 2)
              /\ ArithResult(Opcode, Operand(2), Operand(1),
                             after[k - 1])]_vars

\* C17 happens: SUB has computed 0 - 1 and left the single word 2^256 - 1
C17_SubWrapped ==
    /\ result = Running
    /\ call_stack # <<>>
    /\ Top.code = Code_Arith(ZeroWord, WordFromNat(1), SUB)
    /\ Top.pc > 0
    /\ Top.code[Top.pc] = SUB
    /\ Top.stack = <<[i \in 1..32 |-> 255]>>

\* the byte at index i (from 1) of a memory buffer read beyond its length:
\* bytes never written are zero
MemAt(mem, i) == IF i <= Len(mem) THEN mem[i] ELSE 0

\* C18: with o the usize offset taken from the popped word and v the stored
\* word, an MSTORE whose expansion is paid makes the memory max(len, o + 32)
\* bytes long, bytes [o, o + 32) the big-endian bytes of v, every other
\* existing byte as before and every other new byte zero; an MLOAD whose
\* expansion is paid pushes the 32 bytes at [o, o + 32) of the memory read
\* with zeros beyond its length, changes no existing byte and appends only
\* zeros; and the MLOAD at o that immediately follows MSTORE of v at o
\* pushes v.
C18_MemoryRoundTrip ==
    [][LET n      == Len(call_stack)
           k      == Len(Top.stack)
           o      == as_limb0(Operand(1))
           before == Top.memory
           after  == call_stack'[n].memory
       IN  /\ (Executes({MSTORE}) /\ k >= 2 /\ result' = Running) =>
                /\ Len(after) = (IF o + 32 > Len(before) THEN o + 32
                                 ELSE Len(before))
                /\ \A i \in 1..Len(after) :
                     after[i] = (IF i > o /\ i <= o + 32
                                 THEN Operand(2)[i - o]
                                 ELSE MemAt(before, i))
                /\ call_stack'[n].stack = SubSeq(Top.stack, 1, k - 2)
           /\ (Executes({MLOAD}) /\ k >= 1 /\ result' = Running) =>
                /\ call_stack'[n].stack
                     = Append(SubSeq(Top.stack, 1, k - 1),
                              [i \in 1..32 |-> MemAt(before, o + i)])
                /\ Len(after) >= Len(before)
                /\ \A i \in 1..Len(after) : after[i] = MemAt(before, i)
           /\ (/\ Executes({MLOAD})
               /\ Top.code \in StoreLoadCodes
               /\ Top.pc = 136
               /\ result' = Running) =>
                call_stack'[n].stack = <<SubSeq(Top.code, 71, 102)>>]_vars

\* C18 happens: MSTORE of the counting word at offset 33 has grown the
\* 32-byte memory to 65 bytes and the MLOAD at 33 has pushed the word back
C18_LoadedBack ==
    /\ result = Running
    /\ call_stack # <<>>
    /\ Top.code \in StoreLoadCodes
    /\ SubSeq(Top.code, 38, 69) = WordFromNat(33)
    /\ Top.pc = 137
    /\ Len(Top.memory) = 65
    /\ Top.memory_size_words = 3
    /\ Top.stack = <<CountingWord>>

\* the memory after return_data[ro .. ro + sz) is laid over before at mo
CopiedOver(before, after, mo, ro, sz) ==
    /\ Len(after) = (IF mo + sz > Len(before) THEN mo + sz ELSE Len(before))
    /\ \A i \in 1..Len(after) :
         after[i] = (IF i > mo /\ i <= mo + sz
                     THEN return_data[ro + (i - mo)]
                     ELSE MemAt(before, i))

\* the frame's memory, memory_size_words and gas are those after the base
\* charge, and the step has failed with the given kind
FailedUntouched(kind) ==
    LET after == call_stack'[Len(call_stack)]
    IN  /\ result' = Outcome(kind, <<>>)
        /\ after.memory = Top.memory
        /\ after.memory_size_words = Top.memory_size_words
        /\ after.gas = Top.gas - get_opcode_cost(Opcode)

OnlyEntryChanged(accs, after, address, key, value) ==
    LET base == IF address \in DOMAIN accs THEN accs[address]
                ELSE DefaultAccount
    IN  /\ DOMAIN after = (DOMAIN accs) \cup {address}
        /\ \A a \in (DOMAIN accs) \ {address} : after[a] = accs[a]
        /\ after[address].code = base.code
        /\ after[address].jumpdests = base.jumpdests
        /\ after[address].balance = base.balance
        /\ after[address].nonce = base.nonce
        /\ DOMAIN after[address].storage = (DOMAIN base.storage) \cup {key}
        /\ after[address].storage[key] = value
        /\ \A k \in (DOMAIN base.storage) \ {key} :
             after[address].storage[k] = base.storage[k]

\* C20: a step that executes SSTORE with its two operands changes, in the
\* account map, only the storage entry at the popped key of the account at
\* the top frame's callee (a default account when the map has none); every
\* other step, CALL and the end of a frame included, leaves the account map
\* as it is: no account appears, and no balance, code, jumpdest set or
\* storage entry changes.
C20_OnlySstoreChangesAccounts ==
    [][IF Executes({SSTORE}) /\ Len(Top.stack) >= 2
       THEN OnlyEntryChanged(accounts, accounts', Top.callee,
                             Operand(1), Operand(2))
       ELSE accounts' = accounts]_vars

\* C20 happens: the root has stored 0x42 at its key 1 and its CALL to an
\* address without an account has come back, and the map still holds the
\* root's account alone, with its code
C20_AbsentTargetNotCreated ==
    /\ result = Running
    /\ Len(call_stack) = 1
    /\ Top.code = Code_StorageRoot
    /\ Top.pc = 55
    /\ ended_frame # <<>>
    /\ DOMAIN accounts = {RootAddress}
    /\ accounts[RootAddress].code = Code_StorageRoot
    /\ DOMAIN accounts[RootAddress].storage = {WordFromNat(1)}
    /\ accounts[RootAddress].storage[WordFromNat(1)] = WordFromNat(66)

\* cost(w) = 3 * w + floor(w * w / 512), for w below 2^15
RefCost(w) == 3 * w + (w * w) \div 512

\* one call charge(offset, size) on the pair s = [gas, w, failed]: nothing
\* when an earlier call failed, when offset + size = 0 or when the words
\* needed do not exceed w; otherwise the difference of the costs is taken
\* and w raised, or the call fails and leaves gas and w as they are.  A sum
\* from 2^30 on costs more than any gas of the model.
RefCharge(s, offset, size) ==
    LET bytes == saturating_add(offset, size)
        words == (bytes + 31) \div 32
    IN  IF s.failed \/ bytes = 0 THEN s
        ELSE IF bytes >= UsizeHuge THEN [s EXCEPT !.failed = TRUE]
        ELSE IF words <= s.w THEN s
        ELSE IF s.gas < RefCost(words) - RefCost(s.w)
        THEN [s EXCEPT !.failed = TRUE]
        ELSE [gas |-> s.gas - (RefCost(words) - RefCost(s.w)),
              w |-> words, failed |-> FALSE]

\* the calls to charge the arm of the opcode at the top frame makes, applied
\* to the gas left after the base charge
RefCharged ==
    LET s0 == [gas |-> Top.gas - get_opcode_cost(Opcode),
               w |-> Top.memory_size_words, failed |-> FALSE]
    IN  IF Len(Top.stack) < WordsNeeded(Opcode) THEN s0
        ELSE IF Opcode \in {MLOAD, MSTORE}
        THEN RefCharge(s0, as_limb0(Operand(1)), 32)
        ELSE IF Opcode \in {SHA3, RETURN, REVERT}
        THEN RefCharge(s0, as_limb0(Operand(1)), as_limb0(Operand(2)))
        ELSE IF Opcode = RETURNDATACOPY
        THEN (IF saturating_add(as_limb0(Operand(2)), as_limb0(Operand(3)))
                    > Len(return_data)
              THEN s0
              ELSE RefCharge(s0, as_limb0(Operand(1)), as_limb0(Operand(3))))
        ELSE IF Opcode = CALL
        THEN RefCharge(RefCharge(s0, as_limb0(Operand(4)),
                                 as_limb0(Operand(5))),
                       as_limb0(Operand(6)), as_limb0(Operand(7)))
        ELSE s0

C22_PcInsideCode ==
    /\ [](\A i \in 1..Len(call_stack) :
            /\ call_stack[i].pc >= 0
            /\ call_stack[i].pc <= Len(call_stack[i].code))
    /\ [][LET n     == Len(call_stack)
              k     == Len(Top.stack)
              after == call_stack'[n]
          IN  /\ (Executes({JUMP}) /\ k >= 1 /\ result' = Running) =>
                   /\ after.pc = as_limb0(Operand(1))
                   /\ after.pc < Len(Top.code)
              /\ (Executes({JUMPI}) /\ k >= 2 /\ result' = Running) =>
                   /\ after.pc = (IF is_zero(Operand(2)) THEN Top.pc + 1
                                  ELSE as_limb0(Operand(1)))
                   /\ after.pc <= Len(Top.code)
              /\ Executes(PUSH1..PUSH32) =>
                   after.pc = Min(Top.pc + 1 + (Opcode - PUSH1 + 1),
                                  Len(Top.code))
              /\ (CanStep /\ AtEnd) =>
                   /\ ended_frame'[1].pc = Top.pc
                   /\ return_data' = <<>>
                   /\ result' = Running
                   /\ Len(call_stack') = n - 1
                   /\ n > 1 =>
                        call_stack'[n - 1].stack
                          = Append(call_stack[n - 1].stack, WordFromNat(1))]_vars

\* C22 happens: the PUSH2 of a code that ends one byte into its immediate
\* has pushed 0xab00 and left pc at the code length 4
C22_TruncatedPushAtEnd ==
    /\ result = Running
    /\ call_stack # <<>>
    /\ Top.code = Code_PushTruncated
    /\ Top.pc = 4
    /\ Len(Top.stack) = 2
    /\ Top.stack[2] = [i \in 1..32 |-> IF i = 31 THEN 171 ELSE 0]

\* C23: every frame on the call stack that is the constructor's or whose
\* callee has an account in the account map carries the jumpdest set the
\* analyzer computes on the frame's code, and no step changes the jumpdest
\* set (or the code) of a frame that stays on the call stack.
C23_FrameJumpdestsAnalyzed ==
    /\ [](\A i \in 1..Len(call_stack) :
            (i = 1 \/ call_stack[i].callee \in DOMAIN accounts) =>
              call_stack[i].jumpdests = analyze_jumpdests(call_stack[i].code))
    /\ [][\A i \in 1..Min(Len(call_stack), Len(call_stack')) :
            /\ call_stack'[i].jumpdests = call_stack[i].jumpdests
            /\ call_stack'[i].code = call_stack[i].code]_vars

\* C24: a step of the top frame changes return_data only when it ends the
\* frame, by STOP, RETURN, REVERT or by finding pc at the end of the code,
\* and changes last_call_return only when it executes CALL with its seven
\* operands; every other step, and every step in which run returns OutOfGas,
\* InvalidJump, InvalidOpcode or StackUnderflow, leaves both as they are.
C24_BuffersChangeAtFrameBoundaries ==
    [][CanStep =>
         /\ return_data' # return_data =>
              /\ Len(call_stack') = Len(call_stack) - 1
              /\ AtEnd \/ Opcode \in {STOP, RETURN, REVERT}
         /\ last_call_return' # last_call_return =>
              /\ Executes({CALL})
              /\ Len(Top.stack) >= 7
         /\ result'.kind \in FailureKinds =>
              /\ return_data' = return_data
              /\ last_call_return' = last_call_return
         /\ (~AtEnd /\ Opcode \in {RETURNDATASIZE, RETURNDATACOPY}) =>
              /\ return_data' = return_data
              /\ last_call_return' = last_call_return]_vars

\* C24 happens: after a CALL with the return window (0, 1) whose child
\* returned one byte, RETURNDATASIZE and a RETURNDATACOPY have run and a
\* second RETURNDATACOPY has failed, and the buffer and the pair are still
\* what the child's end and the CALL made them
C24_KeptThroughCopyAndFailure ==
    /\ result = Outcome("InvalidOpcode", <<>>)
    /\ call_stack # <<>>
    /\ Top.code = Code_ReturnDataCopy
    /\ Top.pc = 49
    /\ return_data = <<0>>
    /\ last_call_return = <<0, 1>>

\* the sum of the gas of the frames of a call stack
RECURSIVE GasOnStack(_)
GasOnStack(frames) ==
    IF frames = <<>> THEN 0
    ELSE Head(frames).gas + GasOnStack(Tail(frames))

\* C25: in every reachable state the gas of the frames on the call stack
\* sums to at most the gas limit the machine was constructed with, every
\* frame's gas is at least 0, and no step raises the sum; so the sum
\* caller gas + ended gas that a frame end stores in the caller is at most
\* the gas limit, inside the 64-bit range.
C25_GasNeverCreated ==
    /\ [](call_stack # <<>> =>
            /\ GasOnStack(call_stack) <= created[1].frame.gas
            /\ \A i \in 1..Len(call_stack) : call_stack[i].gas >= 0)
    /\ [][LET n == Len(call_stack)
          IN  /\ GasOnStack(call_stack') <= GasOnStack(call_stack)
              /\ (Len(call_stack') < n /\ call_stack' # <<>>) =>
                   /\ call_stack'[n - 1].gas
                        = call_stack[n - 1].gas + ended_frame'[1].gas
                   /\ ended_frame'[1].gas <= Top.gas
                   /\ call_stack'[n - 1].gas <= created'[1].frame.gas
              /\ Len(call_stack') > n =>
                   call_stack'[n].gas + call_stack'[n + 1].gas
                     <= Top.gas]_vars

\* C25 happens: a child that was forwarded 5000 of the root's 100000 has
\* returned, and the root holds what neither frame has spent
C25_RemainderHandedBack ==
    /\ result = Running
    /\ Len(call_stack) = 1
    /\ Top.code = Code_CallMain
    /\ created[1].frame.gas = LargeGas
    /\ ended_frame # <<>>
    /\ ended_frame[1].code = Code_CallSub
    /\ ended_frame[1].gas > 0
    /\ ended_frame[1].gas < 5000
    /\ Top.gas > LargeGas - 5000 + ended_frame[1].gas - 100
    /\ Top.gas < LargeGas

\* the account map holds exactly the entries of the initial storage and of
\* the SSTOREs executed so far, each with the word stored last
AccountsHoldStores ==
    /\ \A p \in DOMAIN stored :
         /\ p[1] \in DOMAIN accounts
         /\ p[2] \in DOMAIN accounts[p[1]].storage
         /\ accounts[p[1]].storage[p[2]] = stored[p]
    /\ \A a \in DOMAIN accounts :
         \A k \in DOMAIN accounts[a].storage : <<a, k>> \in DOMAIN stored

\* C26: when run has returned Revert, OutOfGas, InvalidJump, InvalidOpcode
\* or StackUnderflow, every entry an SSTORE wrote before, in the failing
\* frame or in any other, is in the account map with the word stored last,
\* and the map holds nothing else beside the initial storage.
C26_StorageSurvivesFailure ==
    result.kind \in FailureKinds \cup {"Revert"} => AccountsHoldStores

\* C26 happens: the root stored 0x42 at its key 1, its child stored 0x42 at
\* its own key 1 and then failed on a JUMP; both entries are in the map,
\* which is not the map the failing frame was created with
C26_FailedAfterNestedStore ==
    /\ result = Outcome("InvalidJump", <<>>)
    /\ Len(call_stack) = 2
    /\ Top.callee = SubAddress
    /\ DOMAIN accounts[RootAddress].storage = {WordFromNat(1)}
    /\ accounts[RootAddress].storage[WordFromNat(1)] = WordFromNat(66)
    /\ DOMAIN accounts[SubAddress].storage = {WordFromNat(1)}
    /\ accounts[SubAddress].storage[WordFromNat(1)] = WordFromNat(66)
    /\ accounts # created[2].accounts

=============================================================================
